---------------------------- MODULE Spec2Model ----------------------------
(***************************************************************************)
(* Model of the seckill (flash sale) engine of qmmzzdx/seckill_system.      *)
(*                                                                         *)
(* The backing stores are modelled by what the code asks of them:           *)
(*   Redis  : stock cells goods_stock:<g>, purchase tokens                  *)
(*            seckill_token:<t>, rate windows user_rate_limit:<u>;          *)
(*   MySQL  : promotion_seckill rows and success_killed rows;               *)
(*   etcd   : lock keys with a lease.                                       *)
(* Every network call of a handler is one atomic step at the store, and     *)
(* concurrent requests interleave between their calls.  A call id stands    *)
(* for one invocation of a service method by one request worker.            *)
(***************************************************************************)
EXTENDS Integers, FiniteSets, Sequences, TLC

\* ------------------------------------------------------------------ bounds
NUsers == 2          \* user ids 1..NUsers
NCalls == 4          \* invocations of a service method in one behaviour
NCommits == 3        \* of which SeckillWithToken calls
MaxTokens == 4       \* purchase tokens made in one behaviour
MaxStock == 2        \* largest initial ps_count of the promotion
MaxFaults == 1       \* store errors and lease expiries in one behaviour
MaxRateLimit == 2    \* largest /seckill/config/rate_limit
TickSeconds == 30    \* granularity of the wall clock, in seconds
MaxTime == 60        \* the wall clock runs from 0 to MaxTime seconds
NGateCalls == 2      \* GenerateSeckillToken calls while the operator is at work
NEventCalls == 2     \* SeckillWithToken and SimulatePayment calls on the event path
NLeaseCalls == 3      \* calls of either method while leases are watched
MaxChanges == 3       \* changes etcd records while the watch runs
MaxSessions == 2     \* session tokens made in one behaviour
SessionTickSeconds == 43200  \* granularity of the clock on the session path
MaxSessionTime == 129600     \* the session path's clock runs from 0 to here

\* ------------------------------------------------------------------ constants
RateWindowSeconds == 60   \* time.Minute handed to UserRateLimit
DefaultRateLimit == 10    \* rateLimit when the configuration read fails
MaxRetries == 3           \* maxRetries handed to the two retry loops
OrderStatusCreated == 0
OrderStatusPaid == 1
OrderStatusPaymentFailed == 2
SessionTTLSeconds == 86400  \* 24 * time.Hour, the life of a session token
BookStockCount == 100       \* the ps_count ResetDataBase gives a promotion

Users == 1..NUsers
Calls == 1..NCalls
Commits == 1..NCommits
GateCalls == 1..NGateCalls
EventCalls == 1..NEventCalls
TokenIds == 1..MaxTokens
SessionIds == 1..MaxSessions
LeaseCalls == 1..NLeaseCalls
\* Product 1 is on promotion; product 2 is only ever named in a request.
PromoGoods == {1}
Goods == {1, 2}

\* An absent Redis key (redis.Nil), an absent row (gorm.ErrRecordNotFound).
NoCell == [has |-> FALSE, val |-> 0]
NoToken == [has |-> FALSE, user |-> 0, goods |-> 0, expired |-> FALSE]
NoPromotion == [has |-> FALSE, ps_count |-> 0, version |-> 0,
                start_time |-> 0, end_time |-> 0]
NoRate == [has |-> FALSE, count |-> 0, expireAt |-> 0]
NoAdmit == [has |-> FALSE, at |-> 0, n |-> 0, win |-> 0]
NoSession == [has |-> FALSE, user |-> 0, expireAt |-> 0]
NoRet == [has |-> FALSE, val |-> 0]
Ret(n) == [has |-> TRUE, val |-> n]
Cell(n) == [has |-> TRUE, val |-> n]

\* An etcd key: absent (len(resp.Kvs) == 0) or holding a string.
NoKey == [has |-> FALSE, val |-> ""]
Key(v) == [has |-> TRUE, val |-> v]

VARIABLES
    stock,       \* Redis goods_stock:<g>: NoCell or Cell(n)
    tokens,      \* Redis seckill_token:<t>: NoToken or [has, user, goods, expired]
    promotion,   \* MySQL promotion_seckill by goods_id: NoPromotion or a row
    orders,      \* MySQL success_killed: number of rows per <<goods_id, user_id>>
    locks,       \* etcd seckill_user_<u>: 0 (no key) or the call whose lease holds it
    spawned,     \* calls that started the asyncSendOrderMessage goroutine
    pc,          \* per call: the next network call it makes
    arg,         \* per call: [u, g, t] it was invoked with
    ver,         \* per call: promotion.Version read inside the transaction
    res,         \* per call: "none", "running", "ok" or the error it returns
    initCount,   \* ps_count of product 1 when the campaign opened (K)
    issued,      \* the purchase tokens handed to clients: [has, user, goods]
    faults,      \* store errors and lease expiries so far
    lost,        \* compensating increments the counter store failed, per goods
    now,         \* the wall clock, in seconds
    rate,        \* Redis user_rate_limit:<u>: NoRate or [has, count, expireAt]
    rate_limit,  \* etcd /seckill/config/rate_limit
    enabled,     \* etcd /seckill/config/enabled
    blacklist,   \* users with an etcd key /seckill/blacklist/<u>
    tokenLocks,  \* etcd user_token_lock_<u>_<g>: 0 or the call whose lease holds it
    lim,         \* per call: the local rateLimit of GenerateSeckillToken
    admit,       \* per call: whether UserRateLimit allowed it, at what time, the
                 \* counter value its INCR returned (n) and the time at which
                 \* the rate key it incremented was created (win)
    goodsRows,   \* MySQL goods: the goods_id values that have a row
    switchOp,    \* the last SetSeckillEnabled that completed: "none", "on", "off"
    banOp,       \* per user, the last thing that happened to the blacklist
                 \* entry: "none", "added", "removed", "expired"
    bus,         \* Kafka topic: the messages written, in order
    emit,        \* per call: position of its asyncSendOrderMessage goroutine
    tries,       \* per call: WriteMessages attempts of its retry loop so far
    payReq,      \* per call: [order, success] SimulatePayment was invoked with
    orderOffset, \* order consumer group: messages read so far
    payOffset,   \* payment consumer group: messages read so far
    handledOrder,\* indices of bus handed to the order handler, in order
    handledPay,  \* indices of bus handed to the payment handler, in order
    consumers,   \* which consumer loops are still running
    sessions,    \* Redis user_token:<t>: NoSession or [has, user, expireAt]
    handed,      \* the session tokens GenerateUserToken returned to clients
    uid,         \* per call: the user id VerifyUserToken returned (0: none)
    cancelled,   \* per call: whether the ctx handed to its retry loop is done
    waits,       \* per call: the backoffs, in seconds, its retry loop sat out
    scriptRet,   \* per call: the integer stock_operations.lua returned to it
    preloadLock, \* etcd preload_lock_<g>: 0 or the call whose lease holds it
    psRead,      \* per call: promotion.PsCount as PreloadGoodsStock read it
    watching,    \* whether WatchSeckillConfig has created its watch
    rch,         \* the watch channel: events etcd sent that the loop has not read
    changes,     \* etcd's history of puts and deletes under /seckill/ since the
                 \* watch was created
    delivered    \* the <<key, value>> pairs the watch callback was called with

vars == <<stock, tokens, promotion, orders, locks, spawned, pc, arg, ver, res,
          initCount, issued, faults, lost,
          now, rate, rate_limit, enabled, blacklist, tokenLocks, lim, admit,
          goodsRows, switchOp, banOp,
          bus, emit, tries, payReq, orderOffset, payOffset,
          handledOrder, handledPay, consumers,
          sessions, handed, uid, cancelled, waits,
          scriptRet, preloadLock, psRead,
          watching, rch, changes, delivered>>

\* What only GenerateSeckillToken and the clock touch.
gateVars == <<now, rate, rate_limit, enabled, blacklist, tokenLocks, lim, admit>>

\* What only the administrative operations touch.
adminVars == <<goodsRows, switchOp, banOp>>

\* What only the event path touches.
eventVars == <<bus, emit, tries, payReq, orderOffset, payOffset,
               handledOrder, handledPay, consumers>>

\* What only the session-token calls touch.
sessionVars == <<sessions, handed, uid>>

\* What only a retry loop with a context that can be cancelled touches.
retryVars == <<cancelled, waits>>

\* What only a direct run of the stock script and the stock preload touch.
cellVars == <<scriptRet, preloadLock, psRead>>

\* What only the configuration watch touches.
watchVars == <<watching, rch, changes, delivered>>

NoArg == [u |-> 0, g |-> 0, t |-> 0]
NoPayReq == [order |-> 0, success |-> FALSE]

\* A store call fails, or a lease runs out early, only while the budget lasts.
MayFail == faults < MaxFaults

\* ------------------------------------------------- counter store (Redis)

\* A script that decrements first and looks at the result after.
check_and_decr_stock_DecrFirst(cell) ==
    IF ~cell.has THEN [ret |-> -1, cell |-> cell]
    ELSE IF cell.val - 1 < 0 THEN [ret |-> -2, cell |-> Cell(cell.val - 1)]
    ELSE [ret |-> cell.val - 1, cell |-> Cell(cell.val - 1)]

\* scripts/stock_operations.lua check_and_decr_stock: -1 when the key is absent,
\* -2 when the value is <= 0, else DECR and the new value.
check_and_decr_stock(cell) ==
    IF ~cell.has THEN [ret |-> -1, cell |-> cell]
    ELSE IF cell.val <= 0 THEN [ret |-> -2, cell |-> cell]
    ELSE [ret |-> cell.val - 1, cell |-> Cell(cell.val - 1)]

\* A CheckAndDecrStock that lets a call through when the script says -2.
CheckAndDecrStock_IgnoresSoldOut(cell) ==
    LET r == check_and_decr_stock(cell) IN
    IF r.ret = -1 THEN [ok |-> FALSE, err |-> "stock_not_found", cell |-> r.cell]
    ELSE [ok |-> TRUE, err |-> "nil", cell |-> r.cell]

\* A CheckAndDecrStock that takes the last unit and reports it as sold out.
CheckAndDecrStock_OffByOne(cell) ==
    LET r == check_and_decr_stock(cell) IN
    IF r.ret = -1 THEN [ok |-> FALSE, err |-> "stock_not_found", cell |-> r.cell]
    ELSE IF r.ret <= 0 THEN [ok |-> FALSE, err |-> "sold_out", cell |-> r.cell]
    ELSE [ok |-> TRUE, err |-> "nil", cell |-> r.cell]

\* A CheckAndDecrStock that decrements first and looks at the result after:
\* a sold-out cell is left one lower.
CheckAndDecrStock_DecrThenCheck(cell) ==
    IF ~cell.has THEN [ok |-> FALSE, err |-> "stock_not_found", cell |-> cell]
    ELSE IF cell.val <= 0
    THEN [ok |-> FALSE, err |-> "sold_out", cell |-> Cell(cell.val - 1)]
    ELSE [ok |-> TRUE, err |-> "nil", cell |-> Cell(cell.val - 1)]

\* RedisRepository.CheckAndDecrStock: the script's integer turned into
\* (canSeckill, err).
CheckAndDecrStock(cell) ==
    LET r == check_and_decr_stock(cell) IN
    IF r.ret = -1 THEN [ok |-> FALSE, err |-> "stock_not_found", cell |-> r.cell]
    ELSE IF r.ret = -2 THEN [ok |-> FALSE, err |-> "sold_out", cell |-> r.cell]
    ELSE IF r.ret = -99 THEN [ok |-> FALSE, err |-> "unknown_command", cell |-> r.cell]
    ELSE [ok |-> TRUE, err |-> "nil", cell |-> r.cell]

\* A compensation that gives the unit back twice.
IncrGoodsStock_Twice(cell) == IF cell.has THEN Cell(cell.val + 2) ELSE Cell(2)

\* RedisRepository.IncrGoodsStock: Redis INCR (an absent key counts as 0).
IncrGoodsStock(cell) == IF cell.has THEN Cell(cell.val + 1) ELSE Cell(1)

\* A token check that compares the user and forgets the product.
VerifySeckillTokenCheck_UserOnly(rec, userId, goodsId) ==
    IF ~rec.has THEN "token_not_found"
    ELSE IF rec.expired THEN "token_expired"
    ELSE IF rec.user # userId THEN "token_mismatch"
    ELSE "nil"

\* A token check that first looks at the switch and the blacklist.
VerifySeckillTokenCheck_ChecksGates(rec, userId, goodsId) ==
    IF enabled.has /\ enabled.val # "true" THEN "disabled"
    ELSE IF userId \in blacklist THEN "blacklisted"
    ELSE IF ~rec.has THEN "token_not_found"
    ELSE IF rec.expired THEN "token_expired"
    ELSE IF rec.user # userId \/ rec.goods # goodsId THEN "token_mismatch"
    ELSE "nil"

\* The checks of RedisRepository.VerifySeckillToken on the record it read.
VerifySeckillTokenCheck(rec, userId, goodsId) ==
    IF ~rec.has THEN "token_not_found"
    ELSE IF rec.expired THEN "token_expired"
    ELSE IF rec.user # userId \/ rec.goods # goodsId THEN "token_mismatch"
    ELSE "nil"

\* r.client.Del(key) on the token key.
DelSeckillToken(toks, tokenId) == [toks EXCEPT ![tokenId] = NoToken]

\* A rate script that pushes the expiry forward on every increment.
user_rate_limit_SlidingExpiry(key, limit, ttl, t) ==
    IF key.has /\ key.count >= limit THEN [ret |-> 0, key |-> key]
    ELSE LET value == (IF key.has THEN key.count ELSE 0) + 1 IN
         [ret |-> 1,
          key |-> [has |-> TRUE, count |-> value, expireAt |-> t + ttl]]

\* A rate script that counts and never refuses.
user_rate_limit_Unlimited(key, limit, ttl, t) ==
    LET value == (IF key.has THEN key.count ELSE 0) + 1 IN
    [ret |-> 1,
     key |-> [has |-> TRUE, count |-> value,
              expireAt |-> IF value = 1 THEN t + ttl ELSE key.expireAt]]

\* scripts/user_rate_limit.lua on the key as Redis holds it at time t: 0 when
\* the key exists with a value >= limit; else INCR, EXPIRE ttl when the new
\* value is 1, and 1.
user_rate_limit(key, limit, ttl, t) ==
    IF key.has /\ key.count >= limit THEN [ret |-> 0, key |-> key]
    ELSE LET value == (IF key.has THEN key.count ELSE 0) + 1 IN
         [ret |-> 1,
          key |-> [has |-> TRUE, count |-> value,
                   expireAt |-> IF value = 1 THEN t + ttl ELSE key.expireAt]]

\* RedisRepository.UserRateLimit: allowed is "the script returned 1".
UserRateLimit(key, limit, duration, t) ==
    LET r == user_rate_limit(key, limit, duration, t) IN
    [allowed |-> (r.ret = 1), key |-> r.key]

\* RedisRepository.GetGoodsStock: an absent key reads as 0.
GetGoodsStock(cell) == IF cell.has THEN cell.val ELSE 0

\* RedisRepository.GenerateSeckillToken: SET seckill_token:<t> with the user,
\* the product and ExpireAt 30 minutes ahead.
NewSeckillToken(userId, goodsId) ==
    [has |-> TRUE, user |-> userId, goods |-> goodsId, expired |-> FALSE]

\* ------------------------------------------------- durable store (MySQL)

\* GoodRepository.OccReduceOnePromotionByGoodsId: UPDATE ... SET ps_count =
\* ps_count - 1, version = version + 1 WHERE goods_id = ? AND version = ?.
\* It runs on dao.db, not on the transaction handle: it commits by itself.
OccReduceOnePromotionByGoodsId(promo, version) ==
    IF promo.has /\ promo.version = version
    THEN [rows |-> 1,
          promo |-> [promo EXCEPT !.ps_count = @ - 1, !.version = @ + 1]]
    ELSE [rows |-> 0, promo |-> promo]

\* An order table without the primary key on (goods_id, user_id).
AddSuccessKilled_NoPrimaryKey(rows, goodsId, userId) ==
    [err |-> "nil", rows |-> [rows EXCEPT ![<<goodsId, userId>>] = @ + 1]]

\* GoodRepository.AddSuccessKilled: INSERT into success_killed, whose primary
\* key is (goods_id, user_id).
AddSuccessKilled(rows, goodsId, userId) ==
    IF rows[<<goodsId, userId>>] >= 1
    THEN [err |-> "duplicate_order", rows |-> rows]
    ELSE [err |-> "nil", rows |-> [rows EXCEPT ![<<goodsId, userId>>] = @ + 1]]

\* ------------------------------------------------- coordination store (etcd)

\* A lock that is granted whether or not the key exists.
GetDistributedLock_AlwaysGrants(holder, c) == [locked |-> TRUE, holder |-> c]

\* ETCDRepository.GetDistributedLock: Txn If(CreateRevision(key) = 0)
\* Then(Put(key, lease)); Succeeded reports whether the key was absent.
GetDistributedLock(holder, c) ==
    IF holder = 0 THEN [locked |-> TRUE, holder |-> c]
    ELSE [locked |-> FALSE, holder |-> holder]

\* A release that leaves the key where it is.
ReleaseDistributedLock_KeepsKey(holder, c) == holder

\* ETCDRepository.ReleaseDistributedLock: Delete(key), whoever holds it.
ReleaseDistributedLock(holder, c) == 0

\* ETCDRepository.SetSeckillEnabled: the string written for a bool.
EnabledValue(on) == Key(IF on THEN "true" ELSE "false")

\* A switch read that takes an absent key for "off".
GetSeckillEnabled_AbsentIsOff(key) == key.has /\ key.val = "true"

\* ETCDRepository.GetSeckillEnabled: an absent key reads as true; a key that
\* exists reads as true only when it holds the string "true".
GetSeckillEnabled(key) == IF ~key.has THEN TRUE ELSE key.val = "true"

\* A blacklist read that never finds the entry.
IsInBlacklist_NeverFound(banned, userId) == FALSE

\* ETCDRepository.IsInBlacklist: the key /seckill/blacklist/<userId> exists.
IsInBlacklist(banned, userId) == userId \in banned

\* ------------------------------------------------- initial state

\* The state in which a campaign opens: product 1 has a promotion with
\* ps_count = K and version 0, its stock cell holds what the preload left
\* (K, or nothing when the preload never ran), no order exists and no lock is
\* held.  owner[t] is the user purchase token t was issued to (0: not issued);
\* token ids are labels, so owners are listed in ascending order.
\* The promotion runs from start to end.
CampaignAt(promoted, K, preloaded, owner, start, end) ==
    /\ initCount = K
    /\ promotion = [g \in Goods |->
                      IF g \in promoted
                      THEN [has |-> TRUE, ps_count |-> K, version |-> 0,
                            start_time |-> start, end_time |-> end]
                      ELSE NoPromotion]
    /\ stock = [g \in Goods |->
                  IF g \in promoted /\ preloaded THEN Cell(K) ELSE NoCell]
    /\ issued = [t \in TokenIds |->
                   IF owner[t] = 0 THEN [has |-> FALSE, user |-> 0, goods |-> 0]
                   ELSE [has |-> TRUE, user |-> owner[t], goods |-> 1]]
    /\ tokens = [t \in TokenIds |->
                   IF owner[t] = 0 THEN NoToken
                   ELSE [has |-> TRUE, user |-> owner[t], goods |-> 1,
                         expired |-> FALSE]]
    /\ orders = [k \in Goods \X Users |-> 0]
    /\ locks = [u \in Users |-> 0]
    /\ spawned = {}
    /\ pc = [c \in Calls |-> "new"]
    /\ arg = [c \in Calls |-> NoArg]
    /\ ver = [c \in Calls |-> 0]
    /\ res = [c \in Calls |-> "none"]
    /\ faults = 0
    /\ lost = [g \in Goods |-> 0]

\* A campaign whose promotion is running for the whole behaviour.
Campaign(promoted, K, preloaded, owner) ==
    CampaignAt(promoted, K, preloaded, owner, 0, MaxTime)

\* The goods table, and an event bus on which nothing was written yet; both
\* consumer loops are running.
Catalogue(rows) ==
    /\ goodsRows = rows
    /\ bus = <<>>
    /\ emit = [c \in Calls |-> "none"]
    /\ tries = [c \in Calls |-> 0]
    /\ payReq = [c \in Calls |-> NoPayReq]
    /\ orderOffset = 0
    /\ payOffset = 0
    /\ handledOrder = <<>>
    /\ handledPay = <<>>
    /\ consumers = [order |-> TRUE, payment |-> TRUE]
    /\ sessions = [t \in SessionIds |-> NoSession]
    /\ handed = [t \in SessionIds |-> NoSession]
    /\ uid = [c \in Calls |-> 0]
    /\ cancelled = [c \in Calls |-> FALSE]
    /\ waits = [c \in Calls |-> <<>>]
    /\ scriptRet = [c \in Calls |-> NoRet]
    /\ preloadLock = [g \in Goods |-> 0]
    /\ psRead = [c \in Calls |-> 0]
    /\ watching = FALSE
    /\ rch = <<>>
    /\ changes = <<>>
    /\ delivered = <<>>

\* The configuration in etcd and the state of the admission path: the clock
\* is at 0, no rate key exists and no token lock is held.  key is what etcd
\* holds under /seckill/config/enabled.
Gateway(limit, key, banned) ==
    /\ now = 0
    /\ rate = [u \in Users |-> NoRate]
    /\ rate_limit = limit
    /\ enabled = key
    /\ blacklist = banned
    /\ tokenLocks = [k \in Users \X Goods |-> 0]
    /\ lim = [c \in Calls |-> 0]
    /\ admit = [c \in Calls |-> NoAdmit]
    /\ switchOp = "none"
    /\ banOp = [u \in Users |-> "none"]

Ascending(owner) ==
    \A t \in DOMAIN owner : IF t = 1 THEN TRUE ELSE owner[t - 1] <= owner[t]

\* One token per commit call has been issued, to any users; the configuration
\* is the one seeded at startup.
Init ==
    \E K \in 1..MaxStock, preloaded \in BOOLEAN, owner \in [Commits -> Users] :
        /\ Ascending(owner)
        /\ Campaign(PromoGoods, K, preloaded,
                    [t \in TokenIds |-> IF t \in Commits THEN owner[t] ELSE 0])
        /\ Gateway(DefaultRateLimit, EnabledValue(TRUE), {})
        /\ Catalogue(Goods)

\* ------------------------------------------------- GoodService.SeckillWithToken

\* Call ids are labels: they are handed out in order.
NextCall(c) == pc[c] = "new" /\ (IF c = 1 THEN TRUE ELSE pc[c - 1] # "new")

Return(c, r) == /\ pc' = [pc EXCEPT ![c] = "done"]
                /\ res' = [res EXCEPT ![c] = r]

Goto(c, l) == pc' = [pc EXCEPT ![c] = l]

Fault == MayFail /\ faults' = faults + 1

\* SeckillWithToken(userId, goodsId, tokenId) starts with VerifySeckillToken,
\* whose first call is GET seckill_token:<t>; the record is then checked locally.
VerifySeckillToken_Get(c, u, g, t) ==
    /\ NextCall(c)
    /\ arg' = [arg EXCEPT ![c] = [u |-> u, g |-> g, t |-> t]]
    /\ \/ /\ Fault
          /\ Return(c, "token_get_error")
       \/ /\ UNCHANGED faults
          /\ LET v == VerifySeckillTokenCheck(tokens[t], u, g) IN
             IF v = "nil" THEN Goto(c, "v_del") /\ res' = [res EXCEPT ![c] = "running"]
             ELSE IF v = "token_expired"
             THEN Goto(c, "v_delexp") /\ res' = [res EXCEPT ![c] = "running"]
             ELSE Return(c, v)
    /\ UNCHANGED <<stock, tokens, promotion, orders, locks, spawned, ver,
                   initCount, issued, lost>>
    /\ UNCHANGED gateVars
    /\ UNCHANGED <<watchVars, cellVars, retryVars, sessionVars, adminVars, eventVars>>

\* time.Now().After(ExpireAt): Del(key), whose outcome is not looked at, and
\* return "token expired".
VerifySeckillToken_DelExpired(c) ==
    /\ pc[c] = "v_delexp"
    /\ \/ /\ Fault
          /\ UNCHANGED tokens
       \/ /\ UNCHANGED faults
          /\ tokens' = DelSeckillToken(tokens, arg[c].t)
    /\ Return(c, "token_expired")
    /\ UNCHANGED <<stock, promotion, orders, locks, spawned, arg, ver,
                   initCount, issued, lost>>
    /\ UNCHANGED gateVars
    /\ UNCHANGED <<watchVars, cellVars, retryVars, sessionVars, adminVars, eventVars>>

\* The record matched: Del(key), then return true.  Neither the reply nor an
\* error of the Del is looked at: when it fails the record stays and the call
\* goes on all the same.
VerifySeckillToken_Del(c) ==
    /\ pc[c] = "v_del"
    /\ \/ /\ Fault
          /\ UNCHANGED tokens
       \/ /\ UNCHANGED faults
          /\ tokens' = DelSeckillToken(tokens, arg[c].t)
    /\ Goto(c, "lock")
    /\ UNCHANGED <<stock, promotion, orders, locks, spawned, arg, ver, res,
                   initCount, issued, lost>>
    /\ UNCHANGED gateVars
    /\ UNCHANGED <<watchVars, cellVars, retryVars, sessionVars, adminVars, eventVars>>

\* GetDistributedLock(seckill_user_<u>, 10): an error or a held key ends the call.
SeckillWithToken_Lock(c) ==
    /\ pc[c] = "lock"
    /\ \/ /\ Fault
          /\ Return(c, "lock_error")
          /\ UNCHANGED locks
       \/ /\ UNCHANGED faults
          /\ LET r == GetDistributedLock(locks[arg[c].u], c) IN
             /\ locks' = [locks EXCEPT ![arg[c].u] = r.holder]
             /\ IF r.locked THEN Goto(c, "decr") /\ UNCHANGED res
                ELSE Return(c, "busy")
    /\ UNCHANGED <<stock, tokens, promotion, orders, spawned, arg, ver,
                   initCount, issued, lost>>
    /\ UNCHANGED gateVars
    /\ UNCHANGED <<watchVars, cellVars, retryVars, sessionVars, adminVars, eventVars>>

\* The deferred ReleaseDistributedLock, then the return to the caller.
SeckillWithToken_Release(c) ==
    /\ pc[c] = "release"
    /\ \/ /\ Fault
          /\ UNCHANGED locks
       \/ /\ UNCHANGED faults
          /\ locks' = [locks EXCEPT
                         ![arg[c].u] = ReleaseDistributedLock(locks[arg[c].u], c)]
    /\ Goto(c, "done")
    /\ UNCHANGED <<stock, tokens, promotion, orders, spawned, arg, ver, res,
                   initCount, issued, lost>>
    /\ UNCHANGED gateVars
    /\ UNCHANGED <<watchVars, cellVars, retryVars, sessionVars, adminVars, eventVars>>

\* The lease of a lock key runs out (TTL 10 s) and etcd deletes the key.
LeaseExpire(u) ==
    /\ locks[u] # 0
    /\ Fault
    /\ locks' = [locks EXCEPT ![u] = 0]
    /\ UNCHANGED <<stock, tokens, promotion, orders, spawned, pc, arg, ver, res,
                   initCount, issued, lost>>
    /\ UNCHANGED gateVars
    /\ UNCHANGED <<watchVars, cellVars, retryVars, sessionVars, adminVars, eventVars>>

\* The wall clock passes a token's ExpireAt while Redis still holds the key.
TokenPassExpiry(t) ==
    /\ tokens[t].has /\ ~tokens[t].expired
    /\ tokens' = [tokens EXCEPT ![t].expired = TRUE]
    /\ UNCHANGED <<stock, promotion, orders, locks, spawned, pc, arg, ver, res,
                   initCount, issued, faults, lost>>
    /\ UNCHANGED gateVars
    /\ UNCHANGED <<watchVars, cellVars, retryVars, sessionVars, adminVars, eventVars>>

\* Redis drops a token key whose TTL ran out.
TokenEvict(t) ==
    /\ tokens[t].has /\ tokens[t].expired
    /\ tokens' = [tokens EXCEPT ![t] = NoToken]
    /\ UNCHANGED <<stock, promotion, orders, locks, spawned, pc, arg, ver, res,
                   initCount, issued, faults, lost>>
    /\ UNCHANGED gateVars
    /\ UNCHANGED <<watchVars, cellVars, retryVars, sessionVars, adminVars, eventVars>>

\* ------------------------------------------------- SeckillHandler.CreateOrder

\* CheckAndDecrStock(goodsId): err != nil || !canSeckill returns at once, with
\* nothing reserved; otherwise the cell is one lower and the transaction starts.
CreateOrder_CheckAndDecrStock(c) ==
    /\ pc[c] = "decr"
    /\ \/ /\ Fault
          /\ Goto(c, "release")
          /\ res' = [res EXCEPT ![c] = "stock_error"]
          /\ UNCHANGED stock
       \/ /\ UNCHANGED faults
          /\ LET r == CheckAndDecrStock(stock[arg[c].g]) IN
             /\ stock' = [stock EXCEPT ![arg[c].g] = r.cell]
             /\ IF r.ok THEN Goto(c, "tx_read") /\ UNCHANGED res
                ELSE Goto(c, "release") /\ res' = [res EXCEPT ![c] = r.err]
    /\ UNCHANGED <<tokens, promotion, orders, locks, spawned, arg, ver,
                   initCount, issued, lost>>
    /\ UNCHANGED gateVars
    /\ UNCHANGED <<watchVars, cellVars, retryVars, sessionVars, adminVars, eventVars>>

\* Inside WithTransaction: GetPromotionByGoodsId (a read on dao.db).
CreateOrder_GetPromotion(c) ==
    /\ pc[c] = "tx_read"
    /\ \/ /\ Fault
          /\ Goto(c, "restore")
          /\ res' = [res EXCEPT ![c] = "get_promotion_failed"]
          /\ UNCHANGED ver
       \/ /\ UNCHANGED faults
          /\ IF promotion[arg[c].g].has
             THEN /\ ver' = [ver EXCEPT ![c] = promotion[arg[c].g].version]
                  /\ Goto(c, "tx_occ")
                  /\ UNCHANGED res
             ELSE /\ Goto(c, "restore")
                  /\ res' = [res EXCEPT ![c] = "get_promotion_failed"]
                  /\ UNCHANGED ver
    /\ UNCHANGED <<stock, tokens, promotion, orders, locks, spawned, arg,
                   initCount, issued, lost>>
    /\ UNCHANGED gateVars
    /\ UNCHANGED <<watchVars, cellVars, retryVars, sessionVars, adminVars, eventVars>>

\* OccReduceOnePromotionByGoodsId(goodsId, promotion.Version): the UPDATE is
\* issued on dao.db, so it is committed when it returns, whatever the
\* transaction around it does later.
CreateOrder_OccReduce(c) ==
    /\ pc[c] = "tx_occ"
    /\ \/ /\ Fault
          /\ Goto(c, "restore")
          /\ res' = [res EXCEPT ![c] = "reduce_failed"]
          /\ UNCHANGED promotion
       \/ /\ UNCHANGED faults
          /\ LET r == OccReduceOnePromotionByGoodsId(promotion[arg[c].g], ver[c]) IN
             /\ promotion' = [promotion EXCEPT ![arg[c].g] = r.promo]
             /\ IF r.rows = 0
                THEN Goto(c, "restore") /\ res' = [res EXCEPT ![c] = "stock_not_enough"]
                ELSE Goto(c, "tx_ins") /\ UNCHANGED res
    /\ ver' = [ver EXCEPT ![c] = 0]     \* the local is not read again
    /\ UNCHANGED <<stock, tokens, orders, locks, spawned, arg,
                   initCount, issued, lost>>
    /\ UNCHANGED gateVars
    /\ UNCHANGED <<watchVars, cellVars, retryVars, sessionVars, adminVars, eventVars>>

\* A CreateOrder that starts the goroutine asyncSendOrderMessage whether or
\* not the insert succeeded.
CreateOrder_AddSuccessKilled_AlwaysEmits(c) ==
    /\ pc[c] = "tx_ins"
    /\ \/ /\ Fault
          /\ \E e \in {"create_order_failed", "tx_commit_failed"} :
                res' = [res EXCEPT ![c] = e]
          /\ Goto(c, "restore")
          /\ UNCHANGED orders
       \/ /\ UNCHANGED faults
          /\ LET r == AddSuccessKilled(orders, arg[c].g, arg[c].u) IN
             /\ orders' = r.rows
             /\ IF r.err = "nil"
                THEN Goto(c, "release") /\ res' = [res EXCEPT ![c] = "ok"]
                ELSE Goto(c, "restore") /\ res' = [res EXCEPT ![c] = r.err]
    /\ spawned' = spawned \cup {c}
    /\ UNCHANGED <<stock, tokens, promotion, locks, arg, ver, initCount, issued, lost>>
    /\ UNCHANGED gateVars
    /\ UNCHANGED <<watchVars, cellVars, retryVars, sessionVars, adminVars, eventVars>>

\* AddSuccessKilled(tx, order) and the commit of the transaction.  The insert
\* is the only statement on the transaction handle, so a rollback undoes
\* nothing else.  On success orderSuccess is set and, after the transaction,
\* the goroutine asyncSendOrderMessage is started.
CreateOrder_AddSuccessKilled(c) ==
    /\ pc[c] = "tx_ins"
    /\ \/ /\ Fault
          /\ \E e \in {"create_order_failed", "tx_commit_failed"} :
                res' = [res EXCEPT ![c] = e]
          /\ Goto(c, "restore")
          /\ UNCHANGED <<orders, spawned>>
       \/ /\ UNCHANGED faults
          /\ LET r == AddSuccessKilled(orders, arg[c].g, arg[c].u) IN
             /\ orders' = r.rows
             /\ IF r.err = "nil"
                THEN /\ Goto(c, "release")
                     /\ res' = [res EXCEPT ![c] = "ok"]
                     /\ spawned' = spawned \cup {c}
                ELSE /\ Goto(c, "restore")
                     /\ res' = [res EXCEPT ![c] = r.err]
                     /\ UNCHANGED spawned
    /\ UNCHANGED <<stock, tokens, promotion, locks, arg, ver, initCount, issued, lost>>
    /\ UNCHANGED gateVars
    /\ UNCHANGED <<watchVars, cellVars, retryVars, sessionVars, adminVars, eventVars>>

\* err != nil after WithTransaction: IncrGoodsStock(goodsId) once; a failure of
\* the increment is logged and the cell stays as it is.
CreateOrder_Restore(c) ==
    /\ pc[c] = "restore"
    /\ \/ /\ Fault
          /\ lost' = [lost EXCEPT ![arg[c].g] = @ + 1]
          /\ UNCHANGED stock
       \/ /\ UNCHANGED <<faults, lost>>
          /\ stock' = [stock EXCEPT ![arg[c].g] = IncrGoodsStock(@)]
    /\ Goto(c, "release")
    /\ UNCHANGED <<tokens, promotion, orders, locks, spawned, arg, ver, res,
                   initCount, issued>>
    /\ UNCHANGED gateVars
    /\ UNCHANGED <<watchVars, cellVars, retryVars, sessionVars, adminVars, eventVars>>

\* ------------------------------------------------- GoodService.GenerateSeckillToken

\* GetDistributedLock(user_token_lock_<u>_<g>, 10): an error or a held key
\* ends the call with "please don't repeat request".
GenerateSeckillToken_Lock(c, u, g) ==
    /\ NextCall(c)
    /\ arg' = [arg EXCEPT ![c] = [u |-> u, g |-> g, t |-> 0]]
    /\ \/ /\ Fault
          /\ Return(c, "repeat_request")
          /\ UNCHANGED tokenLocks
       \/ /\ UNCHANGED faults
          /\ LET r == GetDistributedLock(tokenLocks[<<u, g>>], c) IN
             /\ tokenLocks' = [tokenLocks EXCEPT ![<<u, g>>] = r.holder]
             /\ IF r.locked
                THEN Goto(c, "g_gates") /\ res' = [res EXCEPT ![c] = "running"]
                ELSE Return(c, "repeat_request")
    /\ UNCHANGED <<stock, tokens, promotion, orders, locks, spawned, ver,
                   initCount, issued, lost>>
    /\ UNCHANGED <<now, rate, rate_limit, enabled, blacklist, lim, admit>>
    /\ UNCHANGED <<watchVars, cellVars, retryVars, sessionVars, adminVars, eventVars>>

\* Gates that look at the stock cell before anything else.
AdmissionGates_StockFirst(on, banned, found, promo, cell, t, userId) ==
    IF GetGoodsStock(cell) <= 0 THEN "sold_out"
    ELSE IF ~on THEN "disabled"
    ELSE IF userId \in banned THEN "blacklisted"
    ELSE IF ~found THEN "goods_not_found"
    ELSE IF ~promo.has THEN "promotion_not_found"
    ELSE IF t < promo.start_time \/ t > promo.end_time THEN "not_available"
    ELSE "nil"

\* The gates before the rate gate, in the order of the code: enabled,
\* blacklist, goods row found, promotion found, now inside
\* [StartTime, EndTime], stock > 0.
AdmissionGates(on, banned, found, promo, cell, t, userId) ==
    IF ~on THEN "disabled"
    ELSE IF IsInBlacklist(banned, userId) THEN "blacklisted"
    ELSE IF ~found THEN "goods_not_found"
    ELSE IF ~promo.has THEN "promotion_not_found"
    ELSE IF t < promo.start_time \/ t > promo.end_time THEN "not_available"
    ELSE IF GetGoodsStock(cell) <= 0 THEN "sold_out"
    ELSE "nil"

\* GetSeckillEnabled, IsInBlacklist, FindGoodById, GetPromotionByGoodsId,
\* time.Now and CheckStock: reads only, the first that fails returns.
GenerateSeckillToken_Gates(c) ==
    /\ pc[c] = "g_gates"
    /\ \/ /\ Fault
          /\ res' = [res EXCEPT ![c] = "gate_read_failed"]
          /\ Goto(c, "g_release")
       \/ /\ UNCHANGED faults
          /\ LET v == AdmissionGates(GetSeckillEnabled(enabled), blacklist,
                                     arg[c].g \in goodsRows, promotion[arg[c].g],
                                     stock[arg[c].g], now, arg[c].u) IN
             IF v = "nil" THEN Goto(c, "g_cfg") /\ UNCHANGED res
             ELSE Goto(c, "g_release") /\ res' = [res EXCEPT ![c] = v]
    /\ UNCHANGED <<stock, tokens, promotion, orders, locks, spawned, arg, ver,
                   initCount, issued, lost>>
    /\ UNCHANGED gateVars
    /\ UNCHANGED <<watchVars, cellVars, retryVars, sessionVars, adminVars, eventVars>>

\* GetRateLimitConfig: on an error rateLimit = 10 and the call goes on.
GenerateSeckillToken_GetRateLimitConfig(c) ==
    /\ pc[c] = "g_cfg"
    /\ \/ /\ Fault
          /\ lim' = [lim EXCEPT ![c] = DefaultRateLimit]
       \/ /\ UNCHANGED faults
          /\ lim' = [lim EXCEPT ![c] = rate_limit]
    /\ Goto(c, "g_rate")
    /\ UNCHANGED <<stock, tokens, promotion, orders, locks, spawned, arg, ver, res,
                   initCount, issued, lost>>
    /\ UNCHANGED <<now, rate, rate_limit, enabled, blacklist, tokenLocks, admit>>
    /\ UNCHANGED <<watchVars, cellVars, retryVars, sessionVars, adminVars, eventVars>>

\* UserRateLimit(userId, rateLimit, time.Minute): one atomic script run.
GenerateSeckillToken_UserRateLimit(c) ==
    /\ pc[c] = "g_rate"
    /\ \/ /\ Fault
          /\ res' = [res EXCEPT ![c] = "rate_limit_failed"]
          /\ Goto(c, "g_release")
          /\ UNCHANGED <<rate, admit>>
       \/ /\ UNCHANGED faults
          /\ LET r == UserRateLimit(rate[arg[c].u], lim[c], RateWindowSeconds, now) IN
             /\ rate' = [rate EXCEPT ![arg[c].u] = r.key]
             /\ IF r.allowed
                THEN /\ admit' = [admit EXCEPT ![c] =
                                     [has |-> TRUE, at |-> now,
                                      n |-> r.key.count,
                                      win |-> r.key.expireAt - RateWindowSeconds]]
                     /\ Goto(c, "g_token")
                     /\ UNCHANGED res
                ELSE /\ res' = [res EXCEPT ![c] = "too_many_requests"]
                     /\ Goto(c, "g_release")
                     /\ UNCHANGED admit
    /\ UNCHANGED <<stock, tokens, promotion, orders, locks, spawned, arg, ver,
                   initCount, issued, lost>>
    /\ UNCHANGED <<now, rate_limit, enabled, blacklist, tokenLocks, lim>>
    /\ UNCHANGED <<watchVars, cellVars, retryVars, sessionVars, adminVars, eventVars>>

\* Token ids are random strings: the token made is one never made before.
FreshToken == CHOOSE t \in TokenIds :
                 ~issued[t].has /\ \A s \in TokenIds : s < t => issued[s].has

\* RedisRepository.GenerateSeckillToken: the record is stored and the token
\* id returned to the client.
GenerateSeckillToken_Token(c) ==
    /\ pc[c] = "g_token"
    /\ \E t \in TokenIds : ~issued[t].has
    /\ \/ /\ Fault
          /\ res' = [res EXCEPT ![c] = "store_token_failed"]
          /\ UNCHANGED <<tokens, issued, arg>>
       \/ /\ UNCHANGED faults
          /\ tokens' = [tokens EXCEPT
                          ![FreshToken] = NewSeckillToken(arg[c].u, arg[c].g)]
          /\ issued' = [issued EXCEPT
                          ![FreshToken] = [has |-> TRUE, user |-> arg[c].u,
                                           goods |-> arg[c].g]]
          /\ arg' = [arg EXCEPT ![c].t = FreshToken]
          /\ res' = [res EXCEPT ![c] = "ok"]
    /\ Goto(c, "g_release")
    /\ UNCHANGED <<stock, promotion, orders, locks, spawned, ver, initCount, lost>>
    /\ UNCHANGED gateVars
    /\ UNCHANGED <<watchVars, cellVars, retryVars, sessionVars, adminVars, eventVars>>

\* The deferred ReleaseDistributedLock(user_token_lock_<u>_<g>), then the
\* return to the caller.
GenerateSeckillToken_Release(c) ==
    /\ pc[c] = "g_release"
    /\ \/ /\ Fault
          /\ UNCHANGED tokenLocks
       \/ /\ UNCHANGED faults
          /\ tokenLocks' =
                [tokenLocks EXCEPT
                   ![<<arg[c].u, arg[c].g>>] = ReleaseDistributedLock(@, c)]
    /\ Goto(c, "done")
    /\ UNCHANGED <<stock, tokens, promotion, orders, locks, spawned, arg, ver, res,
                   initCount, issued, lost>>
    /\ UNCHANGED <<now, rate, rate_limit, enabled, blacklist, lim, admit>>
    /\ UNCHANGED <<watchVars, cellVars, retryVars, sessionVars, adminVars, eventVars>>

\* The lease of a token lock runs out (TTL 10 s) and etcd deletes the key.
TokenLeaseExpire(u, g) ==
    /\ tokenLocks[<<u, g>>] # 0
    /\ Fault
    /\ tokenLocks' = [tokenLocks EXCEPT ![<<u, g>>] = 0]
    /\ UNCHANGED <<stock, tokens, promotion, orders, locks, spawned, pc, arg, ver,
                   res, initCount, issued, lost>>
    /\ UNCHANGED <<now, rate, rate_limit, enabled, blacklist, lim, admit>>
    /\ UNCHANGED <<watchVars, cellVars, retryVars, sessionVars, adminVars, eventVars>>

\* The wall clock advances; Redis drops the rate keys whose TTL has run out.
Tick ==
    /\ now + TickSeconds <= MaxTime
    /\ now' = now + TickSeconds
    /\ rate' = [u \in Users |->
                  IF rate[u].has /\ rate[u].expireAt <= now + TickSeconds
                  THEN NoRate ELSE rate[u]]
    /\ UNCHANGED <<stock, tokens, promotion, orders, locks, spawned, pc, arg, ver,
                   res, initCount, issued, faults, lost>>
    /\ UNCHANGED <<rate_limit, enabled, blacklist, tokenLocks, lim, admit>>
    /\ UNCHANGED <<watchVars, cellVars, retryVars, sessionVars, adminVars, eventVars>>

\* ------------------------------------------------- configuration watch

\* global.EtcdKeySeckillEnabled, EtcdKeyRateLimit and EtcdKeyBlacklist with
\* the user id appended, as paths: "/seckill/config/enabled" is
\* <<"seckill", "config", "enabled">>.
EtcdKeySeckillEnabled == <<"seckill", "config", "enabled">>
EtcdKeyRateLimit == <<"seckill", "config", "rate_limit">>
EtcdKeyBlacklist == <<"seckill", "blacklist">>
BlacklistKey(userId) == EtcdKeyBlacklist \o <<ToString(userId)>>

\* clientv3.WithPrefix(): the keys that begin with prefix.
HasPrefix(key, prefix) ==
    /\ Len(prefix) <= Len(key)
    /\ SubSeq(key, 1, Len(prefix)) = prefix

\* clientv3.Event: a put carries the new value, a delete an empty one.
PutEvent(key, value) == [type |-> "PUT", key |-> key, value |-> value]
DeleteEvent(key) == [type |-> "DELETE", key |-> key, value |-> ""]

\* What etcd does with a change once the watch of WatchSeckillConfig exists:
\* the change enters the history, and the watch channel when its key begins
\* with the key the watch was created on, global.EtcdKeySeckillEnabled.
Notify(ev) ==
    /\ watching => Len(changes) < MaxChanges
    /\ changes' = IF watching THEN Append(changes, ev) ELSE changes
    /\ rch' = IF watching /\ HasPrefix(ev.key, EtcdKeySeckillEnabled)
              THEN Append(rch, ev) ELSE rch
    /\ UNCHANGED <<watching, delivered>>

\* StartConfigWatcher: WatchSeckillConfig creates the watch with
\* e.client.Watch(ctx, global.EtcdKeySeckillEnabled, clientv3.WithPrefix()).
StartConfigWatcher ==
    /\ ~watching
    /\ watching' = TRUE
    /\ UNCHANGED <<rch, changes, delivered>>
    /\ UNCHANGED <<stock, tokens, promotion, orders, locks, spawned, pc, arg, ver,
                   res, initCount, issued, faults, lost>>
    /\ UNCHANGED gateVars
    /\ UNCHANGED <<cellVars, retryVars, sessionVars, adminVars, eventVars>>

\* The goroutine of WatchSeckillConfig takes the next event from the channel
\* and calls callback(string(ev.Kv.Key), string(ev.Kv.Value)).
WatchSeckillConfig_Event ==
    /\ rch # <<>>
    /\ delivered' = Append(delivered, <<Head(rch).key, Head(rch).value>>)
    /\ rch' = Tail(rch)
    /\ UNCHANGED <<watching, changes>>
    /\ UNCHANGED <<stock, tokens, promotion, orders, locks, spawned, pc, arg, ver,
                   res, initCount, issued, faults, lost>>
    /\ UNCHANGED gateVars
    /\ UNCHANGED <<cellVars, retryVars, sessionVars, adminVars, eventVars>>

\* ------------------------------------------------- administrative operations

\* ETCDRepository.SetSeckillEnabled(enabled): Put of "true" or "false"; on an
\* error nothing was written.
SetSeckillEnabled(on) ==
    /\ \/ /\ Fault
          /\ UNCHANGED <<enabled, switchOp>>
          /\ UNCHANGED watchVars
       \/ /\ UNCHANGED faults
          /\ enabled' = EnabledValue(on)
          /\ switchOp' = IF on THEN "on" ELSE "off"
          /\ Notify(PutEvent(EtcdKeySeckillEnabled, EnabledValue(on).val))
    /\ UNCHANGED <<stock, tokens, promotion, orders, locks, spawned, pc, arg, ver,
                   res, initCount, issued, lost>>
    /\ UNCHANGED <<now, rate, rate_limit, blacklist, tokenLocks, lim, admit>>
    /\ UNCHANGED <<cellVars, retryVars, sessionVars, goodsRows, banOp, eventVars>>

\* ETCDRepository.SetRateLimitConfig(limit): Put of the limit in decimal; on
\* an error nothing was written.
SetRateLimitConfig(limit) ==
    /\ \/ /\ Fault
          /\ UNCHANGED rate_limit
          /\ UNCHANGED watchVars
       \/ /\ UNCHANGED faults
          /\ rate_limit' = limit
          /\ Notify(PutEvent(EtcdKeyRateLimit, ToString(limit)))
    /\ UNCHANGED <<stock, tokens, promotion, orders, locks, spawned, pc, arg, ver,
                   res, initCount, issued, lost>>
    /\ UNCHANGED <<now, rate, enabled, blacklist, tokenLocks, lim, admit>>
    /\ UNCHANGED <<cellVars, retryVars, sessionVars, adminVars, eventVars>>

\* ETCDRepository.AddToBlacklist(userId, reason, duration): Grant a lease of
\* duration seconds and Put the entry with that lease; on an error of either
\* nothing was written.
AddToBlacklist(u) ==
    /\ \/ /\ Fault
          /\ UNCHANGED <<blacklist, banOp>>
          /\ UNCHANGED watchVars
       \/ /\ UNCHANGED faults
          /\ blacklist' = blacklist \cup {u}
          /\ banOp' = [banOp EXCEPT ![u] = "added"]
          /\ Notify(PutEvent(BlacklistKey(u), "blacklistInfo"))
    /\ UNCHANGED <<stock, tokens, promotion, orders, locks, spawned, pc, arg, ver,
                   res, initCount, issued, lost>>
    /\ UNCHANGED <<now, rate, rate_limit, enabled, tokenLocks, lim, admit>>
    /\ UNCHANGED <<cellVars, retryVars, sessionVars, goodsRows, switchOp, eventVars>>

\* ETCDRepository.RemoveFromBlacklist(userId): Delete of the entry, whether
\* or not it exists; etcd records a delete only of a key that exists.
RemoveFromBlacklist(u) ==
    /\ \/ /\ Fault
          /\ UNCHANGED <<blacklist, banOp>>
          /\ UNCHANGED watchVars
       \/ /\ UNCHANGED faults
          /\ blacklist' = blacklist \ {u}
          /\ banOp' = [banOp EXCEPT ![u] = "removed"]
          /\ IF u \in blacklist THEN Notify(DeleteEvent(BlacklistKey(u)))
             ELSE UNCHANGED watchVars
    /\ UNCHANGED <<stock, tokens, promotion, orders, locks, spawned, pc, arg, ver,
                   res, initCount, issued, lost>>
    /\ UNCHANGED <<now, rate, rate_limit, enabled, tokenLocks, lim, admit>>
    /\ UNCHANGED <<cellVars, retryVars, sessionVars, goodsRows, switchOp, eventVars>>

\* The lease of a blacklist entry runs out and etcd deletes the key.
BlacklistLeaseExpire(u) ==
    /\ u \in blacklist
    /\ blacklist' = blacklist \ {u}
    /\ banOp' = [banOp EXCEPT ![u] = "expired"]
    /\ Notify(DeleteEvent(BlacklistKey(u)))
    /\ UNCHANGED <<stock, tokens, promotion, orders, locks, spawned, pc, arg, ver,
                   res, initCount, issued, faults, lost>>
    /\ UNCHANGED <<now, rate, rate_limit, enabled, tokenLocks, lim, admit>>
    /\ UNCHANGED <<cellVars, retryVars, sessionVars, goodsRows, switchOp, eventVars>>

\* ------------------------------------------------- event path (Kafka)

\* model.OrderMessage as SendOrderMessage writes it, with the header
\* message_type = "order"; the order id stands for the call that made it.
OrderMessage(c) ==
    [type |-> "order", order |-> c, status |-> OrderStatusCreated, by |-> c]

\* A SimulatePayment with the two statuses swapped.
PaymentStatus_Swapped(success) ==
    IF success THEN OrderStatusPaymentFailed ELSE OrderStatusPaid

\* SeckillHandler.SimulatePayment: the status for the outcome of the payment.
PaymentStatus(success) ==
    IF success THEN OrderStatusPaid ELSE OrderStatusPaymentFailed

\* The message SendPaymentMessage writes, with the header message_type =
\* "payment"; c is the call that wrote it.
PaymentMessage(orderId, status, c) ==
    [type |-> "payment", order |-> orderId, status |-> status, by |-> c]

\* A retry loop that gives up after the first failed attempt.
RetryOutcome_NoRetry(i, ok, maxRetries) ==
    IF ok THEN "sent" ELSE "gave_up"

\* One pass of the loop for i := 0; i < maxRetries; i++ in
\* sendOrderMessageWithRetry and sendPaymentMessageWithRetry: a nil error
\* returns nil; after a failed attempt number maxRetries the loop ends with
\* an error; otherwise it backs off and tries again.
RetryOutcome(i, ok, maxRetries) ==
    IF ok THEN "sent"
    ELSE IF i + 1 >= maxRetries THEN "gave_up"
    ELSE "again"

\* An emitter that gives the unit back when the message could not be sent.
OnSendFailure_Restores(cell) == IncrGoodsStock(cell)

\* asyncSendOrderMessage when sendOrderMessageWithRetry returns an error: the
\* error is logged; the stock cell is left as it is.
OnSendFailure(cell) == cell

\* A payment handler that gives a unit back on a failed payment.
HandlePayment_RestoresStock(cells, status) ==
    IF status = OrderStatusPaymentFailed
    THEN [cells EXCEPT ![1] = IncrGoodsStock(@)]
    ELSE cells

\* The handler of StartPaymentConsumer: it logs by status and returns nil;
\* the stock cells are left as they are.
HandlePayment(cells, status) == cells

\* The handler of StartOrderConsumer: it logs by status and returns nil.
HandleOrder(cells, status) == cells

\* The goroutine asyncSendOrderMessage starts with GetPromotionByGoodsId (for
\* the price); when that fails it logs and ends without sending.
AsyncSendOrderMessage_GetPromotion(c) ==
    /\ c \in spawned /\ emit[c] = "none"
    /\ \/ /\ Fault
          /\ emit' = [emit EXCEPT ![c] = "no_promotion"]
       \/ /\ UNCHANGED faults
          /\ emit' = [emit EXCEPT ![c] =
                        IF promotion[arg[c].g].has THEN "send" ELSE "no_promotion"]
    /\ UNCHANGED <<stock, tokens, promotion, orders, locks, spawned, pc, arg, ver,
                   res, initCount, issued, lost>>
    /\ UNCHANGED gateVars
    /\ UNCHANGED <<watchVars, cellVars, retryVars, sessionVars, adminVars, bus, tries, payReq, orderOffset, payOffset,
                   handledOrder, handledPay, consumers>>

\* One attempt of sendOrderMessageWithRetry(ctx, orderMsg, 3): WriteMessages
\* either returns nil, and the message is on the topic, or returns an error.
SendOrderMessageWithRetry(c) ==
    /\ emit[c] = "send"
    /\ \E ok \in BOOLEAN :
          LET o == RetryOutcome(tries[c], ok, MaxRetries) IN
          /\ tries' = [tries EXCEPT ![c] = @ + 1]
          /\ bus' = IF ok THEN Append(bus, OrderMessage(c)) ELSE bus
          /\ emit' = [emit EXCEPT ![c] = IF o = "again" THEN "send" ELSE o]
          /\ stock' = IF o = "gave_up"
                      THEN [stock EXCEPT ![arg[c].g] = OnSendFailure(@)]
                      ELSE stock
    /\ UNCHANGED <<tokens, promotion, orders, locks, spawned, pc, arg, ver,
                   res, initCount, issued, faults, lost>>
    /\ UNCHANGED gateVars
    /\ UNCHANGED <<watchVars, cellVars, retryVars, sessionVars, adminVars, payReq, orderOffset, payOffset,
                   handledOrder, handledPay, consumers>>

\* GoodService.SimulatePayment(orderId, success): the status is chosen; no
\* store is read, the order id is not looked up.
SimulatePayment(c, orderId, success) ==
    /\ NextCall(c)
    /\ payReq' = [payReq EXCEPT ![c] = [order |-> orderId, success |-> success]]
    /\ Goto(c, "p_send")
    /\ res' = [res EXCEPT ![c] = "running"]
    /\ UNCHANGED <<stock, tokens, promotion, orders, locks, spawned, arg, ver,
                   initCount, issued, faults, lost>>
    /\ UNCHANGED gateVars
    /\ UNCHANGED <<watchVars, cellVars, retryVars, sessionVars, adminVars, bus, emit, tries, orderOffset, payOffset,
                   handledOrder, handledPay, consumers>>

\* One attempt of sendPaymentMessageWithRetry(ctx, orderId, status, 3); the
\* call returns nil after an attempt that succeeded and the error after the
\* third that failed.
SendPaymentMessageWithRetry(c) ==
    /\ pc[c] = "p_send"
    /\ \E ok \in BOOLEAN :
          LET o == RetryOutcome(tries[c], ok, MaxRetries) IN
          /\ tries' = [tries EXCEPT ![c] = @ + 1]
          /\ bus' = IF ok
                    THEN Append(bus, PaymentMessage(payReq[c].order,
                                                    PaymentStatus(payReq[c].success), c))
                    ELSE bus
          /\ IF o = "sent" THEN Return(c, "ok")
             ELSE IF o = "gave_up" THEN Return(c, "send_payment_failed")
             ELSE UNCHANGED <<pc, res>>
    /\ UNCHANGED <<stock, tokens, promotion, orders, locks, spawned, arg, ver,
                   initCount, issued, faults, lost>>
    /\ UNCHANGED gateVars
    /\ UNCHANGED <<watchVars, cellVars, retryVars, sessionVars, adminVars, emit, payReq, orderOffset, payOffset,
                   handledOrder, handledPay, consumers>>

\* KafkaRepository.ConsumeOrderMessages: ReadMessage on the reader of the
\* order group; an error ends the loop for good.  Every message of the topic,
\* whatever its message_type, is unmarshalled into an OrderMessage and handed
\* to the handler.
ConsumeOrderMessages ==
    /\ consumers.order /\ orderOffset < Len(bus)
    /\ \/ /\ Fault
          /\ consumers' = [consumers EXCEPT !.order = FALSE]
          /\ UNCHANGED <<stock, orderOffset, handledOrder>>
       \/ /\ UNCHANGED <<faults, consumers>>
          /\ stock' = HandleOrder(stock, bus[orderOffset + 1].status)
          /\ handledOrder' = Append(handledOrder, orderOffset + 1)
          /\ orderOffset' = orderOffset + 1
    /\ UNCHANGED <<tokens, promotion, orders, locks, spawned, pc, arg, ver,
                   res, initCount, issued, lost>>
    /\ UNCHANGED gateVars
    /\ UNCHANGED <<watchVars, cellVars, retryVars, sessionVars, adminVars, bus, emit, tries, payReq, payOffset, handledPay>>

\* KafkaRepository.ConsumePaymentMessages: ReadMessage on the reader of the
\* group <group>_payment; a message whose message_type is not "payment" is
\* skipped, the others are handed to the handler.
ConsumePaymentMessages ==
    /\ consumers.payment /\ payOffset < Len(bus)
    /\ \/ /\ Fault
          /\ consumers' = [consumers EXCEPT !.payment = FALSE]
          /\ UNCHANGED <<stock, payOffset, handledPay>>
       \/ /\ UNCHANGED <<faults, consumers>>
          /\ IF bus[payOffset + 1].type # "payment"
             THEN UNCHANGED <<stock, handledPay>>
             ELSE /\ stock' = HandlePayment(stock, bus[payOffset + 1].status)
                  /\ handledPay' = Append(handledPay, payOffset + 1)
          /\ payOffset' = payOffset + 1
    /\ UNCHANGED <<tokens, promotion, orders, locks, spawned, pc, arg, ver,
                   res, initCount, issued, lost>>
    /\ UNCHANGED gateVars
    /\ UNCHANGED <<watchVars, cellVars, retryVars, sessionVars, adminVars, bus, emit, tries, payReq, orderOffset, handledOrder>>

\* Delivery is at least once: after a restart or a rebalance a group reads
\* again from the last offset it committed.
Redeliver(group) ==
    /\ Fault
    /\ IF group = "order"
       THEN orderOffset > 0 /\ orderOffset' = orderOffset - 1 /\ UNCHANGED payOffset
       ELSE payOffset > 0 /\ payOffset' = payOffset - 1 /\ UNCHANGED orderOffset
    /\ UNCHANGED <<stock, tokens, promotion, orders, locks, spawned, pc, arg, ver,
                   res, initCount, issued, lost>>
    /\ UNCHANGED gateVars
    /\ UNCHANGED <<watchVars, cellVars, retryVars, sessionVars, adminVars, bus, emit, tries, payReq, handledOrder, handledPay,
                   consumers>>

\* ------------------------------------------------- session tokens

\* RedisRepository.GenerateUserToken builds RedisToken{UserId, ExpireAt} with
\* ExpireAt = time.Now().Add(24 * time.Hour).
NewUserToken(userId, t) ==
    [has |-> TRUE, user |-> userId, expireAt |-> t + SessionTTLSeconds]

\* As VerifyUserTokenCheck, without the comparison with ExpireAt.
VerifyUserTokenCheck_IgnoresExpiry(rec, t) ==
    IF ~rec.has THEN "token_not_found" ELSE "ok"

\* RedisRepository.VerifyUserToken after its GET: redis.Nil is "token not
\* found", time.Now().After(ExpireAt) is "token expired".
VerifyUserTokenCheck(rec, t) ==
    IF ~rec.has THEN "token_not_found"
    ELSE IF t > rec.expireAt THEN "token_expired"
    ELSE "ok"

\* generateRandomString(32): a token string no earlier call produced.
FreshSession ==
    CHOOSE t \in SessionIds :
        /\ ~handed[t].has
        /\ \A s \in SessionIds : ~handed[s].has => t <= s

\* GenerateUserToken(userId): SET user_token:<t> with the record and a TTL of
\* time.Until(expireAt); on an error no token is returned.
GenerateUserToken(c, u) ==
    /\ NextCall(c)
    /\ \E t \in SessionIds : ~handed[t].has
    /\ \/ /\ Fault
          /\ arg' = [arg EXCEPT ![c] = [u |-> u, g |-> 0, t |-> 0]]
          /\ Return(c, "store_token_error")
          /\ UNCHANGED <<sessions, handed>>
       \/ /\ UNCHANGED faults
          /\ arg' = [arg EXCEPT ![c] = [u |-> u, g |-> 0, t |-> FreshSession]]
          /\ sessions' = [sessions EXCEPT ![FreshSession] = NewUserToken(u, now)]
          /\ handed' = [handed EXCEPT ![FreshSession] = NewUserToken(u, now)]
          /\ Return(c, "ok")
    /\ UNCHANGED <<stock, tokens, promotion, orders, locks, spawned, ver,
                   initCount, issued, lost>>
    /\ UNCHANGED gateVars
    /\ UNCHANGED <<watchVars, cellVars, retryVars, uid, adminVars, eventVars>>

\* VerifyUserToken(token): GET user_token:<t>, then the local check of the
\* record; a record in order returns its UserId.
VerifyUserToken_Get(c, t) ==
    /\ NextCall(c)
    /\ arg' = [arg EXCEPT ![c] = [u |-> 0, g |-> 0, t |-> t]]
    /\ \/ /\ Fault
          /\ Return(c, "get_token_error")
          /\ UNCHANGED uid
       \/ /\ UNCHANGED faults
          /\ LET v == VerifyUserTokenCheck(sessions[t], now) IN
             IF v = "token_expired"
             THEN /\ Goto(c, "s_delexp")
                  /\ res' = [res EXCEPT ![c] = "running"]
                  /\ UNCHANGED uid
             ELSE /\ Return(c, v)
                  /\ uid' = [uid EXCEPT ![c] =
                               IF v = "ok" THEN sessions[t].user ELSE 0]
    /\ UNCHANGED <<stock, tokens, promotion, orders, locks, spawned, ver,
                   initCount, issued, lost>>
    /\ UNCHANGED gateVars
    /\ UNCHANGED <<watchVars, cellVars, retryVars, sessions, handed, adminVars, eventVars>>

\* time.Now().After(ExpireAt): Del(key), whose outcome is not looked at, and
\* return 0 with "token expired".
VerifyUserToken_DelExpired(c) ==
    /\ pc[c] = "s_delexp"
    /\ \/ /\ Fault
          /\ UNCHANGED sessions
       \/ /\ UNCHANGED faults
          /\ sessions' = [sessions EXCEPT ![arg[c].t] = NoSession]
    /\ Return(c, "token_expired")
    /\ UNCHANGED <<stock, tokens, promotion, orders, locks, spawned, arg, ver,
                   initCount, issued, lost>>
    /\ UNCHANGED gateVars
    /\ UNCHANGED <<watchVars, cellVars, retryVars, handed, uid, adminVars, eventVars>>

\* Redis drops a session key whose TTL ran out.  The TTL starts when the SET
\* arrives, so the key goes no earlier than at ExpireAt.
SessionEvict(t) ==
    /\ sessions[t].has /\ now >= sessions[t].expireAt
    /\ sessions' = [sessions EXCEPT ![t] = NoSession]
    /\ UNCHANGED <<stock, tokens, promotion, orders, locks, spawned, pc, arg, ver,
                   res, initCount, issued, faults, lost>>
    /\ UNCHANGED gateVars
    /\ UNCHANGED <<watchVars, cellVars, retryVars, handed, uid, adminVars, eventVars>>

\* The wall clock advances by half a day; Redis drops the rate keys whose TTL
\* has run out.
SessionTick ==
    /\ now + SessionTickSeconds <= MaxSessionTime
    /\ now' = now + SessionTickSeconds
    /\ rate' = [u \in Users |->
                  IF rate[u].has /\ rate[u].expireAt <= now + SessionTickSeconds
                  THEN NoRate ELSE rate[u]]
    /\ UNCHANGED <<stock, tokens, promotion, orders, locks, spawned, pc, arg, ver,
                   res, initCount, issued, faults, lost>>
    /\ UNCHANGED <<rate_limit, enabled, blacklist, tokenLocks, lim, admit>>
    /\ UNCHANGED <<watchVars, cellVars, retryVars, sessionVars, adminVars, eventVars>>

\* ------------------------------------------------- lease time-to-live

\* The 10 s granted by GetDistributedLock are over for a lock key whose
\* holder has returned without deleting it: etcd revokes the lease and
\* deletes the key.  No call keeps a lease alive.
LeaseTimeout(u) ==
    /\ locks[u] # 0 /\ pc[locks[u]] = "done"
    /\ locks' = [locks EXCEPT ![u] = 0]
    /\ UNCHANGED <<stock, tokens, promotion, orders, spawned, pc, arg, ver, res,
                   initCount, issued, faults, lost>>
    /\ UNCHANGED gateVars
    /\ UNCHANGED <<watchVars, cellVars, retryVars, sessionVars, adminVars, eventVars>>

\* The same for a token lock.
TokenLeaseTimeout(u, g) ==
    /\ tokenLocks[<<u, g>>] # 0 /\ pc[tokenLocks[<<u, g>>]] = "done"
    /\ tokenLocks' = [tokenLocks EXCEPT ![<<u, g>>] = 0]
    /\ UNCHANGED <<stock, tokens, promotion, orders, locks, spawned, pc, arg, ver,
                   res, initCount, issued, faults, lost>>
    /\ UNCHANGED <<now, rate, rate_limit, enabled, blacklist, lim, admit>>
    /\ UNCHANGED <<watchVars, cellVars, retryVars, sessionVars, adminVars, eventVars>>

\* --------------------------- SeckillHandler.CreateOrder, DecrGoodsStock variant

\* RedisRepository.DecrGoodsStock: Redis DECR (an absent key counts as 0).
DecrGoodsStock(cell) == IF cell.has THEN Cell(cell.val - 1) ELSE Cell(-1)

\* Another call holds an uncommitted insert of the same (goods_id, user_id):
\* the INSERT of this call waits for its commit or rollback.
InsertBlocked(c) ==
    \E d \in Calls \ {c} :
        /\ pc[d] \in {"d_send", "d_commit"}
        /\ arg[d].g = arg[c].g /\ arg[d].u = arg[c].u

\* CreateOrder(userId, goodsId): DecrGoodsStock first.  An error returns with
\* nothing done; remaining < 0 goes on to give the unit back.
CreateOrderDecr_DecrGoodsStock(c, u, g) ==
    /\ NextCall(c)
    /\ arg' = [arg EXCEPT ![c] = [u |-> u, g |-> g, t |-> 0]]
    /\ \/ /\ Fault
          /\ Return(c, "decr_failed")
          /\ UNCHANGED stock
       \/ /\ UNCHANGED faults
          /\ stock' = [stock EXCEPT ![g] = DecrGoodsStock(@)]
          /\ res' = [res EXCEPT ![c] = "running"]
          /\ Goto(c, IF DecrGoodsStock(stock[g]).val < 0 THEN "d_soldout" ELSE "d_read")
    /\ UNCHANGED <<tokens, promotion, orders, locks, spawned, ver,
                   initCount, issued, lost>>
    /\ UNCHANGED gateVars
    /\ UNCHANGED <<watchVars, cellVars, retryVars, sessionVars, adminVars, eventVars>>

\* remaining < 0: IncrGoodsStock(goodsId), its error ignored, and "goods sold
\* out"; stockRestored stays false.
CreateOrderDecr_SoldOut(c) ==
    /\ pc[c] = "d_soldout"
    /\ \/ /\ Fault
          /\ lost' = [lost EXCEPT ![arg[c].g] = @ + 1]
          /\ UNCHANGED stock
       \/ /\ UNCHANGED <<faults, lost>>
          /\ stock' = [stock EXCEPT ![arg[c].g] = IncrGoodsStock(@)]
    /\ Return(c, "sold_out")
    /\ UNCHANGED <<tokens, promotion, orders, locks, spawned, arg, ver,
                   initCount, issued>>
    /\ UNCHANGED gateVars
    /\ UNCHANGED <<watchVars, cellVars, retryVars, sessionVars, adminVars, eventVars>>

\* Inside WithTransaction: GetPromotionByGoodsId (a read on dao.db).
CreateOrderDecr_GetPromotion(c) ==
    /\ pc[c] = "d_read"
    /\ \/ /\ Fault
          /\ Goto(c, "d_defer")
          /\ res' = [res EXCEPT ![c] = "get_promotion_failed"]
          /\ UNCHANGED ver
       \/ /\ UNCHANGED faults
          /\ IF promotion[arg[c].g].has
             THEN /\ ver' = [ver EXCEPT ![c] = promotion[arg[c].g].version]
                  /\ Goto(c, "d_occ")
                  /\ UNCHANGED res
             ELSE /\ Goto(c, "d_defer")
                  /\ res' = [res EXCEPT ![c] = "get_promotion_failed"]
                  /\ UNCHANGED ver
    /\ UNCHANGED <<stock, tokens, promotion, orders, locks, spawned, arg,
                   initCount, issued, lost>>
    /\ UNCHANGED gateVars
    /\ UNCHANGED <<watchVars, cellVars, retryVars, sessionVars, adminVars, eventVars>>

\* OccReduceOnePromotionByGoodsId(goodsId, promotion.Version), on dao.db.
\* rowsAffected == 0 goes on to the IncrGoodsStock inside the transaction.
CreateOrderDecr_OccReduce(c) ==
    /\ pc[c] = "d_occ"
    /\ \/ /\ Fault
          /\ Goto(c, "d_defer")
          /\ res' = [res EXCEPT ![c] = "reduce_failed"]
          /\ UNCHANGED promotion
       \/ /\ UNCHANGED faults
          /\ LET r == OccReduceOnePromotionByGoodsId(promotion[arg[c].g], ver[c]) IN
             /\ promotion' = [promotion EXCEPT ![arg[c].g] = r.promo]
             /\ IF r.rows = 0
                THEN Goto(c, "d_occ_incr") /\ res' = [res EXCEPT ![c] = "stock_not_enough"]
                ELSE Goto(c, "d_ins") /\ UNCHANGED res
    /\ ver' = [ver EXCEPT ![c] = 0]     \* the local is not read again
    /\ UNCHANGED <<stock, tokens, orders, locks, spawned, arg,
                   initCount, issued, lost>>
    /\ UNCHANGED gateVars
    /\ UNCHANGED <<watchVars, cellVars, retryVars, sessionVars, adminVars, eventVars>>

\* rowsAffected == 0: IncrGoodsStock(goodsId) inside the transaction function,
\* its error ignored, then the function returns an error.
CreateOrderDecr_IncrInTransaction(c) ==
    /\ pc[c] = "d_occ_incr"
    /\ \/ /\ Fault
          /\ lost' = [lost EXCEPT ![arg[c].g] = @ + 1]
          /\ UNCHANGED stock
       \/ /\ UNCHANGED <<faults, lost>>
          /\ stock' = [stock EXCEPT ![arg[c].g] = IncrGoodsStock(@)]
    /\ Goto(c, "d_defer")
    /\ UNCHANGED <<tokens, promotion, orders, locks, spawned, arg, ver, res,
                   initCount, issued>>
    /\ UNCHANGED gateVars
    /\ UNCHANGED <<watchVars, cellVars, retryVars, sessionVars, adminVars, eventVars>>

\* AddSuccessKilled(tx, order): the INSERT on the transaction handle.  The row
\* is held by the transaction until it commits or rolls back.
CreateOrderDecr_AddSuccessKilled(c) ==
    /\ pc[c] = "d_ins"
    /\ ~InsertBlocked(c)
    /\ \/ /\ Fault
          /\ res' = [res EXCEPT ![c] = "create_order_failed"]
          /\ Goto(c, "d_defer")
          /\ UNCHANGED orders
       \/ /\ UNCHANGED faults
          /\ LET r == AddSuccessKilled(orders, arg[c].g, arg[c].u) IN
             /\ orders' = r.rows
             /\ IF r.err = "nil"
                THEN Goto(c, "d_send") /\ UNCHANGED res
                ELSE Goto(c, "d_defer") /\ res' = [res EXCEPT ![c] = r.err]
    /\ UNCHANGED <<stock, tokens, promotion, locks, spawned, arg, ver,
                   initCount, issued, lost>>
    /\ UNCHANGED gateVars
    /\ UNCHANGED <<watchVars, cellVars, retryVars, sessionVars, adminVars, eventVars>>

\* SendOrderMessage(context.Background(), orderMsg) inside the transaction
\* function: one write to the topic, whose error is only logged.
CreateOrderDecr_SendOrderMessage(c) ==
    /\ pc[c] = "d_send"
    /\ \E ok \in BOOLEAN : bus' = IF ok THEN Append(bus, OrderMessage(c)) ELSE bus
    /\ Goto(c, "d_commit")
    /\ UNCHANGED <<stock, tokens, promotion, orders, locks, spawned, arg, ver, res,
                   initCount, issued, faults, lost>>
    /\ UNCHANGED gateVars
    /\ UNCHANGED <<watchVars, cellVars, retryVars, sessionVars, adminVars, emit, tries,
                   payReq, orderOffset, payOffset, handledOrder, handledPay,
                   consumers>>

\* The transaction function returned nil: the commit.  When it fails the
\* INSERT is rolled back and WithTransaction returns the error.
CreateOrderDecr_Commit(c) ==
    /\ pc[c] = "d_commit"
    /\ \/ /\ Fault
          /\ orders' = [orders EXCEPT ![<<arg[c].g, arg[c].u>>] = @ - 1]
          /\ res' = [res EXCEPT ![c] = "tx_commit_failed"]
          /\ Goto(c, "d_defer")
       \/ /\ UNCHANGED <<faults, orders>>
          /\ Return(c, "ok")
    /\ UNCHANGED <<stock, tokens, promotion, locks, spawned, arg, ver,
                   initCount, issued, lost>>
    /\ UNCHANGED gateVars
    /\ UNCHANGED <<watchVars, cellVars, retryVars, sessionVars, adminVars, eventVars>>

\* err != nil after WithTransaction sets stockRestored, and the deferred
\* function then calls IncrGoodsStock(goodsId), its error ignored.
CreateOrderDecr_Deferred(c) ==
    /\ pc[c] = "d_defer"
    /\ \/ /\ Fault
          /\ lost' = [lost EXCEPT ![arg[c].g] = @ + 1]
          /\ UNCHANGED stock
       \/ /\ UNCHANGED <<faults, lost>>
          /\ stock' = [stock EXCEPT ![arg[c].g] = IncrGoodsStock(@)]
    /\ Goto(c, "done")
    /\ UNCHANGED <<tokens, promotion, orders, locks, spawned, arg, ver, res,
                   initCount, issued>>
    /\ UNCHANGED gateVars
    /\ UNCHANGED <<watchVars, cellVars, retryVars, sessionVars, adminVars, eventVars>>

\* ------------------------------------------------- retry loops, step by step

\* A backoff that grows by one second per attempt.
Backoff_Linear(i) == i

\* backoff := time.Duration(i*i) * time.Second, in seconds.
Backoff(i) == i * i

\* select { case <-time.After(backoff): continue; case <-ctx.Done(): return
\* ctx.Err() }: the cases that can be taken.  With ctx done the timer can
\* only win when it needs no time, and Go then picks either case.
SelectWait(backoff, done) ==
    IF ~done THEN {"timer"}
    ELSE IF backoff = 0 THEN {"timer", "done"}
    ELSE {"done"}

\* After a wait that was sat out: i++ and the test i < maxRetries.
AfterWait(attempts, maxRetries) ==
    IF attempts < maxRetries THEN "send" ELSE "gave_up"

\* The ctx handed to the retry loop of call c is cancelled, or its deadline
\* passes.
CancelContext(c) ==
    /\ ~cancelled[c]
    /\ emit[c] \in {"send", "wait"} \/ pc[c] \in {"p_send", "p_wait"}
    /\ cancelled' = [cancelled EXCEPT ![c] = TRUE]
    /\ UNCHANGED <<stock, tokens, promotion, orders, locks, spawned, pc, arg, ver,
                   res, initCount, issued, faults, lost>>
    /\ UNCHANGED gateVars
    /\ UNCHANGED <<watchVars, cellVars, waits, sessionVars, adminVars, eventVars>>

\* sendOrderMessageWithRetry, the body of the loop up to the backoff:
\* SendOrderMessage returns nil, and the loop returns nil, or it returns an
\* error, which is kept as lastErr.
SendOrderMessage_Attempt(c) ==
    /\ emit[c] = "send"
    /\ tries' = [tries EXCEPT ![c] = @ + 1]
    /\ \E ok \in BOOLEAN :
          /\ bus' = IF ok THEN Append(bus, OrderMessage(c)) ELSE bus
          /\ emit' = [emit EXCEPT ![c] = IF ok THEN "sent" ELSE "wait"]
    /\ UNCHANGED <<stock, tokens, promotion, orders, locks, spawned, pc, arg, ver,
                   res, initCount, issued, faults, lost>>
    /\ UNCHANGED gateVars
    /\ UNCHANGED <<watchVars, cellVars, retryVars, sessionVars, adminVars, payReq, orderOffset,
                   payOffset, handledOrder, handledPay, consumers>>

\* sendOrderMessageWithRetry, the select after failed attempt i = tries - 1.
SendOrderMessage_Backoff(c) ==
    /\ emit[c] = "wait"
    /\ \E o \in SelectWait(Backoff(tries[c] - 1), cancelled[c]) :
          IF o = "timer"
          THEN /\ waits' = [waits EXCEPT ![c] = Append(@, Backoff(tries[c] - 1))]
               /\ emit' = [emit EXCEPT ![c] = AfterWait(tries[c], MaxRetries)]
          ELSE /\ emit' = [emit EXCEPT ![c] = "ctx_err"]
               /\ UNCHANGED waits
    /\ UNCHANGED <<stock, tokens, promotion, orders, locks, spawned, pc, arg, ver,
                   res, initCount, issued, faults, lost>>
    /\ UNCHANGED gateVars
    /\ UNCHANGED <<watchVars, cellVars, cancelled, sessionVars, adminVars, bus, tries, payReq,
                   orderOffset, payOffset, handledOrder, handledPay, consumers>>

\* sendPaymentMessageWithRetry, the body of the loop up to the backoff.
SendPaymentMessage_Attempt(c) ==
    /\ pc[c] = "p_send"
    /\ tries' = [tries EXCEPT ![c] = @ + 1]
    /\ \E ok \in BOOLEAN :
          IF ok
          THEN /\ bus' = Append(bus, PaymentMessage(payReq[c].order,
                                                    PaymentStatus(payReq[c].success), c))
               /\ Return(c, "ok")
          ELSE /\ Goto(c, "p_wait")
               /\ UNCHANGED <<bus, res>>
    /\ UNCHANGED <<stock, tokens, promotion, orders, locks, spawned, arg, ver,
                   initCount, issued, faults, lost>>
    /\ UNCHANGED gateVars
    /\ UNCHANGED <<watchVars, cellVars, retryVars, sessionVars, adminVars, emit, payReq, orderOffset,
                   payOffset, handledOrder, handledPay, consumers>>

\* sendPaymentMessageWithRetry, the select after failed attempt i = tries - 1;
\* SimulatePayment hands the loop's error to its caller.
SendPaymentMessage_Backoff(c) ==
    /\ pc[c] = "p_wait"
    /\ \E o \in SelectWait(Backoff(tries[c] - 1), cancelled[c]) :
          IF o = "timer"
          THEN /\ waits' = [waits EXCEPT ![c] = Append(@, Backoff(tries[c] - 1))]
               /\ IF AfterWait(tries[c], MaxRetries) = "send"
                  THEN Goto(c, "p_send") /\ UNCHANGED res
                  ELSE Return(c, "send_payment_failed")
          ELSE /\ Return(c, "context_canceled")
               /\ UNCHANGED waits
    /\ UNCHANGED <<stock, tokens, promotion, orders, locks, spawned, arg, ver,
                   initCount, issued, faults, lost>>
    /\ UNCHANGED gateVars
    /\ UNCHANGED <<watchVars, cellVars, cancelled, sessionVars, adminVars, eventVars>>

\* ------------------------------------------------- the stock script, run directly

\* RedisRepository.CheckAndDecrStock(goodsId) called on its own: one EVAL of
\* stock_operations.lua with the command check_and_decr.  Redis runs a
\* script to its end before it serves another client.
CheckAndDecrStock_Run(c, g) ==
    /\ NextCall(c)
    /\ arg' = [arg EXCEPT ![c] = [u |-> 0, g |-> g, t |-> 0]]
    /\ \/ /\ Fault
          /\ Return(c, "stock_error")
          /\ UNCHANGED <<stock, scriptRet>>
       \/ /\ UNCHANGED faults
          /\ LET r == CheckAndDecrStock(stock[g]) IN
             /\ stock' = [stock EXCEPT ![g] = r.cell]
             /\ scriptRet' = [scriptRet EXCEPT
                                ![c] = Ret(check_and_decr_stock(stock[g]).ret)]
             /\ Return(c, IF r.ok THEN "ok" ELSE r.err)
    /\ UNCHANGED <<tokens, promotion, orders, locks, spawned, ver,
                   initCount, issued, lost>>
    /\ UNCHANGED gateVars
    /\ UNCHANGED <<watchVars, preloadLock, psRead, retryVars, sessionVars, adminVars, eventVars>>

\* ------------------------------------------------- GoodService.PreloadGoodsStock

\* RedisRepository.SetGoodsStock(goodsId, stock): SET goods_stock:<g> with no
\* expiry, whatever the key held.
SetGoodsStock(cell, n) == Cell(n)

\* GetDistributedLock(preload_lock_<g>, 30): an error or a held key ends the
\* call.
PreloadGoodsStock_Lock(c, g) ==
    /\ NextCall(c)
    /\ arg' = [arg EXCEPT ![c] = [u |-> 0, g |-> g, t |-> 0]]
    /\ \/ /\ Fault
          /\ Return(c, "preload_lock_failed")
          /\ UNCHANGED preloadLock
       \/ /\ UNCHANGED faults
          /\ LET r == GetDistributedLock(preloadLock[g], c) IN
             /\ preloadLock' = [preloadLock EXCEPT ![g] = r.holder]
             /\ IF r.locked
                THEN Goto(c, "pl_read") /\ res' = [res EXCEPT ![c] = "running"]
                ELSE Return(c, "preload_lock_failed")
    /\ UNCHANGED <<stock, tokens, promotion, orders, locks, spawned, ver,
                   initCount, issued, lost>>
    /\ UNCHANGED gateVars
    /\ UNCHANGED <<watchVars, scriptRet, psRead, retryVars, sessionVars, adminVars, eventVars>>

\* GetPromotionByGoodsId(goodsId): the row's PsCount is kept in a local.
PreloadGoodsStock_GetPromotion(c) ==
    /\ pc[c] = "pl_read"
    /\ \/ /\ Fault
          /\ res' = [res EXCEPT ![c] = "get_promotion_failed"]
          /\ Goto(c, "pl_release")
          /\ UNCHANGED psRead
       \/ /\ UNCHANGED faults
          /\ IF promotion[arg[c].g].has
             THEN /\ psRead' = [psRead EXCEPT ![c] = promotion[arg[c].g].ps_count]
                  /\ Goto(c, "pl_set")
                  /\ UNCHANGED res
             ELSE /\ res' = [res EXCEPT ![c] = "get_promotion_failed"]
                  /\ Goto(c, "pl_release")
                  /\ UNCHANGED psRead
    /\ UNCHANGED <<stock, tokens, promotion, orders, locks, spawned, arg, ver,
                   initCount, issued, lost>>
    /\ UNCHANGED gateVars
    /\ UNCHANGED <<watchVars, scriptRet, preloadLock, retryVars, sessionVars, adminVars,
                   eventVars>>

\* SetGoodsStock(goodsId, promotion.PsCount) with the value read before.
PreloadGoodsStock_SetGoodsStock(c) ==
    /\ pc[c] = "pl_set"
    /\ \/ /\ Fault
          /\ res' = [res EXCEPT ![c] = "set_stock_failed"]
          /\ UNCHANGED stock
       \/ /\ UNCHANGED faults
          /\ stock' = [stock EXCEPT ![arg[c].g] = SetGoodsStock(@, psRead[c])]
          /\ res' = [res EXCEPT ![c] = "ok"]
    /\ Goto(c, "pl_release")
    /\ UNCHANGED <<tokens, promotion, orders, locks, spawned, arg, ver,
                   initCount, issued, lost>>
    /\ UNCHANGED gateVars
    /\ UNCHANGED <<watchVars, cellVars, retryVars, sessionVars, adminVars, eventVars>>

\* The deferred ReleaseDistributedLock(preload_lock_<g>), whose error is not
\* looked at, then the return to the caller.
PreloadGoodsStock_Release(c) ==
    /\ pc[c] = "pl_release"
    /\ \/ /\ Fault
          /\ UNCHANGED preloadLock
       \/ /\ UNCHANGED faults
          /\ preloadLock' = [preloadLock EXCEPT
                               ![arg[c].g] = ReleaseDistributedLock(@, c)]
    /\ Goto(c, "done")
    /\ UNCHANGED <<stock, tokens, promotion, orders, locks, spawned, arg, ver, res,
                   initCount, issued, lost>>
    /\ UNCHANGED gateVars
    /\ UNCHANGED <<watchVars, scriptRet, psRead, retryVars, sessionVars, adminVars, eventVars>>

\* The 30 s of a preload lock are over and etcd deletes the key.
PreloadLeaseExpire(g) ==
    /\ preloadLock[g] # 0
    /\ Fault
    /\ preloadLock' = [preloadLock EXCEPT ![g] = 0]
    /\ UNCHANGED <<stock, tokens, promotion, orders, locks, spawned, pc, arg, ver,
                   res, initCount, issued, lost>>
    /\ UNCHANGED gateVars
    /\ UNCHANGED <<watchVars, scriptRet, psRead, retryVars, sessionVars, adminVars, eventVars>>

\* ------------------------------------------------- GoodRepository.ResetDataBase

\* GoodRepository.ClearOrderByGoodsId: DELETE FROM success_killed WHERE
\* goods_id = ?.
ClearOrderByGoodsId(rows, goodsId) ==
    [k \in DOMAIN rows |-> IF k[1] = goodsId THEN 0 ELSE rows[k]]

\* A reset of the promotion that leaves the version where it is.
ResetPromotionCountByGoodsId_KeepsVersion(promo, count) ==
    IF promo.has THEN [promo EXCEPT !.ps_count = count] ELSE promo

\* GoodRepository.ResetPromotionCountByGoodsId: UPDATE ... SET ps_count =
\* count, version = 0 WHERE goods_id = ?; without a row nothing is updated.
ResetPromotionCountByGoodsId(promo, count) ==
    IF promo.has THEN [promo EXCEPT !.ps_count = count, !.version = 0]
    ELSE promo

\* ResetDataBase(goodsId): one transaction that deletes the orders of the
\* product and resets its promotion to BookStockCount.  Both statements run
\* on the transaction handle, so they take effect together at the commit;
\* an error, or a product without a goods row, rolls both back.
ResetDataBase(g) ==
    /\ \/ /\ Fault
          /\ UNCHANGED <<orders, promotion, initCount>>
       \/ /\ UNCHANGED faults
          /\ IF g \in goodsRows
             THEN /\ orders' = ClearOrderByGoodsId(orders, g)
                  /\ promotion' = [promotion EXCEPT
                        ![g] = ResetPromotionCountByGoodsId(@, BookStockCount)]
                  /\ initCount' = IF g \in PromoGoods /\ promotion[g].has
                                  THEN BookStockCount ELSE initCount
             ELSE UNCHANGED <<orders, promotion, initCount>>
    /\ UNCHANGED <<stock, tokens, locks, spawned, pc, arg, ver, res, issued, lost>>
    /\ UNCHANGED gateVars
    /\ UNCHANGED <<watchVars, cellVars, retryVars, sessionVars, adminVars, eventVars>>

\* ------------------------------------------------- specification

\* The steps of a SeckillWithToken call after its token record was read and
\* found in order.
CommitSteps ==
    \/ \E c \in Calls : VerifySeckillToken_Del(c)
    \/ \E c \in Calls : SeckillWithToken_Lock(c)
    \/ \E c \in Calls : CreateOrder_CheckAndDecrStock(c)
    \/ \E c \in Calls : CreateOrder_GetPromotion(c)
    \/ \E c \in Calls : CreateOrder_OccReduce(c)
    \/ \E c \in Calls : CreateOrder_AddSuccessKilled(c)
    \/ \E c \in Calls : CreateOrder_Restore(c)
    \/ \E c \in Calls : SeckillWithToken_Release(c)

\* Clients commit with the tokens they were issued, for the user and product
\* each token was issued for; leases may run out at any moment.
Next ==
    \/ \E c \in Commits, t \in TokenIds :
          issued[t].has /\ VerifySeckillToken_Get(c, issued[t].user, issued[t].goods, t)
    \/ CommitSteps
    \/ \E u \in Users : LeaseExpire(u)

Spec == Init /\ [][Next]_vars

\* Any call may present any token id, user id and goods id; token records
\* pass their ExpireAt and are dropped by Redis.
NextToken ==
    \/ \E c \in Commits, u \in Users, g \in Goods, t \in TokenIds :
          VerifySeckillToken_Get(c, u, g, t)
    \/ \E c \in Calls : VerifySeckillToken_DelExpired(c)
    \/ CommitSteps
    \/ \E u \in Users : LeaseExpire(u)
    \/ \E t \in TokenIds : TokenPassExpiry(t)
    \/ \E t \in TokenIds : TokenEvict(t)

\* One token was issued, to user 1 for product 1; the other ids were never issued.
InitToken ==
    /\ Campaign(PromoGoods, MaxStock, TRUE, [t \in TokenIds |-> IF t = 1 THEN 1 ELSE 0])
    /\ Gateway(DefaultRateLimit, EnabledValue(TRUE), {})
    /\ Catalogue(Goods)

SpecToken == InitToken /\ [][NextToken]_vars

\* The clients of one user ask for purchase tokens, for any product, while
\* time passes.
NextRate ==
    \/ \E c \in Calls, g \in Goods : GenerateSeckillToken_Lock(c, 1, g)
    \/ \E c \in Calls : GenerateSeckillToken_Gates(c)
    \/ \E c \in Calls : GenerateSeckillToken_GetRateLimitConfig(c)
    \/ \E c \in Calls : GenerateSeckillToken_UserRateLimit(c)
    \/ \E c \in Calls : GenerateSeckillToken_Token(c)
    \/ \E c \in Calls : GenerateSeckillToken_Release(c)
    \/ \E u \in Users, g \in Goods : TokenLeaseExpire(u, g)
    \/ Tick

\* Both products are on promotion with a preloaded stock cell, no token has
\* been issued, and the operator has set the rate limit and the switch, and
\* has or has not blacklisted the user.
InitRate ==
    \E limit \in 1..MaxRateLimit, on \in BOOLEAN, banned \in {{}, {1}} :
        /\ Campaign(Goods, MaxStock, TRUE, [t \in TokenIds |-> 0])
        /\ Gateway(limit, EnabledValue(on), banned)
        /\ Catalogue(Goods)

SpecRate == InitRate /\ [][NextRate]_vars

\* Clients ask for purchase tokens while the operator flips the switch and
\* edits the blacklist, blacklist entries run out, and time passes.
NextGate ==
    \/ \E c \in GateCalls, u \in Users, g \in Goods : GenerateSeckillToken_Lock(c, u, g)
    \/ \E c \in Calls : GenerateSeckillToken_Gates(c)
    \/ \E c \in Calls : GenerateSeckillToken_GetRateLimitConfig(c)
    \/ \E c \in Calls : GenerateSeckillToken_UserRateLimit(c)
    \/ \E c \in Calls : GenerateSeckillToken_Token(c)
    \/ \E c \in Calls : GenerateSeckillToken_Release(c)
    \/ \E u \in Users, g \in Goods : TokenLeaseExpire(u, g)
    \/ \E on \in BOOLEAN : SetSeckillEnabled(on)
    \/ AddToBlacklist(1)
    \/ RemoveFromBlacklist(1)
    \/ BlacklistLeaseExpire(1)
    \/ Tick

\* Product 1 has a promotion and the rate limit is 1.  Either all is in
\* order, or the stock cell was never preloaded, or the goods row of the
\* product is missing, or the promotion runs only at the instant
\* TickSeconds.  The switch key is absent, "true" or "false".
InitGate ==
    \E key \in {NoKey, EnabledValue(TRUE), EnabledValue(FALSE)},
       sc \in {"in_order", "no_preload", "no_goods_row", "instant"} :
        /\ CampaignAt(PromoGoods, MaxStock, sc # "no_preload", [t \in TokenIds |-> 0],
                      IF sc = "instant" THEN TickSeconds ELSE 0,
                      IF sc = "instant" THEN TickSeconds ELSE MaxTime)
        /\ Gateway(1, key, {})
        /\ Catalogue(IF sc = "no_goods_row" THEN Goods \ {1} ELSE Goods)

SpecGate == InitGate /\ [][NextGate]_vars

\* Clients commit with their tokens and report payments, for any order id;
\* the emitters write to the topic, which may refuse a write, and the two
\* consumer groups read it, possibly more than once.
NextEvent ==
    \/ \E c \in EventCalls, t \in TokenIds :
          issued[t].has /\ VerifySeckillToken_Get(c, issued[t].user, issued[t].goods, t)
    \/ CommitSteps
    \/ \E c \in Calls : AsyncSendOrderMessage_GetPromotion(c)
    \/ \E c \in Calls : SendOrderMessageWithRetry(c)
    \/ \E c \in EventCalls, o \in EventCalls, success \in BOOLEAN :
          SimulatePayment(c, o, success)
    \/ \E c \in Calls : SendPaymentMessageWithRetry(c)
    \/ ConsumeOrderMessages
    \/ ConsumePaymentMessages
    \/ \E group \in {"order", "payment"} : Redeliver(group)

\* Users 1 and 2 hold one purchase token each for product 1, whose cell was
\* preloaded.
InitEvent ==
    /\ Campaign(PromoGoods, MaxStock, TRUE,
                [t \in TokenIds |-> IF t \in Users THEN t ELSE 0])
    /\ Gateway(DefaultRateLimit, EnabledValue(TRUE), {})
    /\ Catalogue(Goods)

SpecEvent == InitEvent /\ [][NextEvent]_vars

\* The session path: clients obtain session tokens and present them, or
\* strings that were never issued, while the clock runs past the tokens' life.
NextSession ==
    \/ \E c \in Calls, u \in Users : GenerateUserToken(c, u)
    \/ \E c \in Calls, t \in SessionIds : VerifyUserToken_Get(c, t)
    \/ \E c \in Calls : VerifyUserToken_DelExpired(c)
    \/ \E t \in SessionIds : SessionEvict(t)
    \/ SessionTick

InitSession ==
    /\ Campaign(PromoGoods, 1, TRUE, [t \in TokenIds |-> 0])
    /\ Gateway(DefaultRateLimit, EnabledValue(TRUE), {})
    /\ Catalogue(Goods)

SpecSession == InitSession /\ [][NextSession]_vars

\* The steps of call c once it has started, whichever method it is.
CallStep(c) ==
    \/ VerifySeckillToken_Del(c)
    \/ SeckillWithToken_Lock(c)
    \/ CreateOrder_CheckAndDecrStock(c)
    \/ CreateOrder_GetPromotion(c)
    \/ CreateOrder_OccReduce(c)
    \/ CreateOrder_AddSuccessKilled(c)
    \/ CreateOrder_Restore(c)
    \/ SeckillWithToken_Release(c)
    \/ GenerateSeckillToken_Gates(c)
    \/ GenerateSeckillToken_GetRateLimitConfig(c)
    \/ GenerateSeckillToken_UserRateLimit(c)
    \/ GenerateSeckillToken_Token(c)
    \/ GenerateSeckillToken_Release(c)

\* The clients of user 1 ask for purchase tokens for product 1 and commit
\* with the tokens the user holds; leases run out early, or at their time
\* when a release failed.
NextLease ==
    \/ \E c \in LeaseCalls, t \in TokenIds :
          issued[t].has /\ VerifySeckillToken_Get(c, issued[t].user, issued[t].goods, t)
    \/ \E c \in LeaseCalls : GenerateSeckillToken_Lock(c, 1, 1)
    \/ \E u \in Users : LeaseTimeout(u)
    \/ \E u \in Users, g \in Goods : TokenLeaseTimeout(u, g)
    \/ \E c \in Calls : CallStep(c)
    \/ \E u \in Users : LeaseExpire(u)
    \/ \E u \in Users, g \in Goods : TokenLeaseExpire(u, g)

\* User 1 holds one purchase token for product 1, whose cell was preloaded.
InitLease ==
    /\ Campaign(PromoGoods, MaxStock, TRUE, [t \in TokenIds |-> IF t = 1 THEN 1 ELSE 0])
    /\ Gateway(DefaultRateLimit, EnabledValue(TRUE), {})
    /\ Catalogue(Goods)

\* A call that has started goes on to its next network call, every network
\* call returns, and etcd revokes a lease whose time is over.
SpecLease ==
    /\ InitLease
    /\ [][NextLease]_vars
    /\ \A c \in Calls : WF_vars(CallStep(c))
    /\ \A u \in Users : WF_vars(LeaseTimeout(u))
    /\ \A u \in Users, g \in Goods : WF_vars(TokenLeaseTimeout(u, g))

\* The steps of the retry loop of call c.
RetryStep(c) ==
    \/ SendOrderMessage_Attempt(c)
    \/ SendOrderMessage_Backoff(c)
    \/ SendPaymentMessage_Attempt(c)
    \/ SendPaymentMessage_Backoff(c)

\* One client commits with its token and clients report payments; the two
\* retry loops run attempt by attempt, the topic may refuse any write, and
\* the loops' contexts may be cancelled at any moment.
NextRetry ==
    \/ \E t \in TokenIds :
          issued[t].has /\ VerifySeckillToken_Get(1, issued[t].user, issued[t].goods, t)
    \/ CommitSteps
    \/ \E c \in Calls : AsyncSendOrderMessage_GetPromotion(c)
    \/ \E c \in EventCalls, o \in EventCalls, success \in BOOLEAN :
          SimulatePayment(c, o, success)
    \/ \E c \in Calls : RetryStep(c)
    \/ \E c \in Calls : CancelContext(c)

\* User 1 holds a purchase token for product 1, whose cell was preloaded.
InitRetry ==
    /\ Campaign(PromoGoods, MaxStock, TRUE, [t \in TokenIds |-> IF t = 1 THEN 1 ELSE 0])
    /\ Gateway(DefaultRateLimit, EnabledValue(TRUE), {})
    /\ Catalogue(Goods)

\* Every attempt returns and every select takes one of its cases.
SpecRetry ==
    /\ InitRetry
    /\ [][NextRetry]_vars
    /\ \A c \in Calls : WF_vars(RetryStep(c))

\* Clients run the stock script on the cells of both products, in any order.
NextScript ==
    \E c \in Calls, g \in Goods : CheckAndDecrStock_Run(c, g)

\* The cell of product 1 is absent or holds the promotion's ps_count, which
\* an earlier campaign may have left at zero or below.
InitScript ==
    \E K \in -1..MaxStock, preloaded \in BOOLEAN :
        /\ Campaign(PromoGoods, K, preloaded, [t \in TokenIds |-> 0])
        /\ Gateway(DefaultRateLimit, EnabledValue(TRUE), {})
        /\ Catalogue(Goods)

SpecScript == InitScript /\ [][NextScript]_vars

\* The steps of a PreloadGoodsStock call that holds its lock.
PreloadSteps ==
    \/ \E c \in Calls : PreloadGoodsStock_GetPromotion(c)
    \/ \E c \in Calls : PreloadGoodsStock_SetGoodsStock(c)
    \/ \E c \in Calls : PreloadGoodsStock_Release(c)
    \/ \E g \in Goods : PreloadLeaseExpire(g)

\* Clients commit with their tokens while the operator preloads the stock
\* cell of the product on sale.
NextPreload ==
    \/ \E c \in Commits, t \in TokenIds :
          issued[t].has /\ VerifySeckillToken_Get(c, issued[t].user, issued[t].goods, t)
    \/ CommitSteps
    \/ \E c \in Commits : PreloadGoodsStock_Lock(c, 1)
    \/ PreloadSteps

\* Users 1 and 2 hold one purchase token each for product 1; the cell was or
\* was not preloaded before the campaign opened.
InitPreload ==
    \E K \in 1..MaxStock, preloaded \in BOOLEAN :
        /\ Campaign(PromoGoods, K, preloaded,
                    [t \in TokenIds |-> IF t \in Users THEN t ELSE 0])
        /\ Gateway(DefaultRateLimit, EnabledValue(TRUE), {})
        /\ Catalogue(Goods)

SpecPreload == InitPreload /\ [][NextPreload]_vars

\* Clients commit with their tokens while the operator preloads the stock
\* cell and resets products.
NextReset ==
    \/ \E c \in EventCalls, t \in TokenIds :
          issued[t].has /\ VerifySeckillToken_Get(c, issued[t].user, issued[t].goods, t)
    \/ CommitSteps
    \/ \E c \in EventCalls : PreloadGoodsStock_Lock(c, 1)
    \/ PreloadSteps
    \/ \E g \in Goods : ResetDataBase(g)

\* Users 1 and 2 hold one purchase token each for product 1, whose cell was
\* preloaded; product 2 may have no goods row.
InitReset ==
    \E rows \in {Goods, Goods \ {2}} :
        /\ Campaign(PromoGoods, MaxStock, TRUE,
                    [t \in TokenIds |-> IF t \in Users THEN t ELSE 0])
        /\ Gateway(DefaultRateLimit, EnabledValue(TRUE), {})
        /\ Catalogue(rows)

SpecReset == InitReset /\ [][NextReset]_vars

\* The operator switches the campaign, sets the rate limit and edits the
\* blacklist while the configuration watch of the service runs.
NextWatch ==
    \/ StartConfigWatcher
    \/ WatchSeckillConfig_Event
    \/ \E on \in BOOLEAN : SetSeckillEnabled(on)
    \/ \E limit \in 1..MaxRateLimit : SetRateLimitConfig(limit)
    \/ \E u \in Users : AddToBlacklist(u)
    \/ \E u \in Users : RemoveFromBlacklist(u)
    \/ \E u \in Users : BlacklistLeaseExpire(u)

\* The defaults are in etcd and the service has not started its watch yet.
InitWatch ==
    /\ Campaign(PromoGoods, MaxStock, TRUE, [t \in TokenIds |-> 0])
    /\ Gateway(DefaultRateLimit, EnabledValue(TRUE), {})
    /\ Catalogue(Goods)

SpecWatch == InitWatch /\ [][NextWatch]_vars

\* A step of a CreateOrder, DecrGoodsStock variant, that has started.
CreateOrderDecrStep(c) ==
    \/ CreateOrderDecr_SoldOut(c)
    \/ CreateOrderDecr_GetPromotion(c)
    \/ CreateOrderDecr_OccReduce(c)
    \/ CreateOrderDecr_IncrInTransaction(c)
    \/ CreateOrderDecr_AddSuccessKilled(c)
    \/ CreateOrderDecr_SendOrderMessage(c)
    \/ CreateOrderDecr_Commit(c)
    \/ CreateOrderDecr_Deferred(c)

\* Clients call the DecrGoodsStock variant of CreateOrder for product 1.
NextDecr ==
    \/ \E c \in LeaseCalls, u \in Users : CreateOrderDecr_DecrGoodsStock(c, u, 1)
    \/ \E c \in Calls : CreateOrderDecrStep(c)

\* The stock cell of product 1 was preloaded with the K of its promotion.
InitDecr ==
    /\ \E K \in 1..MaxStock :
          Campaign(PromoGoods, K, TRUE, [t \in TokenIds |-> 0])
    /\ Gateway(DefaultRateLimit, EnabledValue(TRUE), {})
    /\ Catalogue(Goods)

SpecDecr == InitDecr /\ [][NextDecr]_vars

\* Clients commit with tokens they were issued earlier while the operator
\* switches the campaign and blacklists users, and time passes.
NextLate ==
    \/ \E c \in EventCalls, t \in TokenIds :
          issued[t].has /\ VerifySeckillToken_Get(c, issued[t].user, issued[t].goods, t)
    \/ CommitSteps
    \/ \E on \in BOOLEAN : SetSeckillEnabled(on)
    \/ \E u \in Users : AddToBlacklist(u)
    \/ Tick

\* Every user holds a purchase token for product 1.  Since the tokens were
\* issued the campaign may have been switched off, user 1 blacklisted, and
\* the window of the promotion moved to begin at TickSeconds.
InitLate ==
    \E on \in BOOLEAN, banned \in {{}, {1}}, start \in {0, TickSeconds} :
        /\ CampaignAt(PromoGoods, MaxStock, TRUE,
                      [t \in TokenIds |-> IF t \in Users THEN t ELSE 0],
                      start, MaxTime)
        /\ Gateway(1, EnabledValue(on), banned)
        /\ Catalogue(Goods)

SpecLate == InitLate /\ [][NextLate]_vars

\* ------------------------------------------------- observations

Min(a, b) == IF a <= b THEN a ELSE b

RECURSIVE SumOver(_, _)
SumOver(f, S) ==
    IF S = {} THEN 0
    ELSE LET x == CHOOSE y \in S : TRUE IN f[x] + SumOver(f, S \ {x})

\* Rows of success_killed with goods_id = g.
OrderCount(g) == SumOver(orders, {g} \X Users)

Started(c) == pc[c] # "new"
Returned(c) == pc[c] = "done"
Quiescent == \A c \in Calls : pc[c] \in {"new", "done"}

\* The errors with which VerifySeckillToken rejects a call.
TokenErrs == {"token_get_error", "token_not_found", "token_expired", "token_mismatch"}

\* VerifySeckillToken returned true to call c.
Passed(c) ==
    /\ pc[c] \notin {"new", "v_del", "v_delexp"}
    /\ ~(pc[c] = "done" /\ res[c] \in TokenErrs)

PassedCalls(t) == {c \in Calls : Passed(c) /\ arg[c].t = t}

\* Calls that hold a pre-decremented unit of g which is neither committed nor
\* given back yet.
Reserving(g) ==
    {c \in Calls : pc[c] \in {"tx_read", "tx_occ", "tx_ins", "restore"} /\ arg[c].g = g}

\* Calls that returned an order id for (g, u).
OkCalls(g, u) ==
    {c \in Calls : res[c] = "ok" /\ arg[c].g = g /\ arg[c].u = u}

\* ------------------------------------------------- claims

\* C1 (no oversell): in every reachable state the number of success_killed
\* rows of a product is at most the ps_count K its promotion opened with.
C1_NoOversell == \A g \in PromoGoods : OrderCount(g) <= initCount

\* C1 case: the stock was sold out down to the last unit and a further
\* commit was turned away.
C1_Witness ==
    /\ OrderCount(1) = initCount
    /\ \E c \in Calls : Returned(c) /\ res[c] = "sold_out"

\* The scenario of C2: the stock cell was preloaded, every call made so far
\* has returned, the calls are by pairwise distinct users, and each passed
\* token validation with its own token.
DistinctUserScenario ==
    /\ stock[1].has
    /\ Quiescent
    /\ \E c \in Calls : Started(c)
    /\ \A c \in Calls : Started(c) => Passed(c)
    /\ \A c, d \in Calls : (Started(c) /\ Started(d) /\ c # d) => arg[c].u # arg[d].u

Attempts == Cardinality({c \in Calls : Started(c)})

\* C2 as stated: after N attempts by N distinct users have all returned, the
\* product has exactly min(N, K) orders.  It is stated here for the runs in
\* which no store call failed and no lease ran out.
C2_ExactlyMin ==
    (DistinctUserScenario /\ faults = 0) => OrderCount(1) = Min(Attempts, initCount)

\* C2 amended: after N attempts by N distinct users have all returned, the
\* product has at most min(N, K) orders, and exactly min(N, K) when every
\* attempt either returned an order id or was turned away as sold out (none
\* failed on a version conflict, a lease or a store error).
C2_AtMostMin ==
    DistinctUserScenario =>
        /\ OrderCount(1) <= Min(Attempts, initCount)
        /\ (\A c \in Calls : Started(c) => res[c] \in {"ok", "sold_out"})
              => OrderCount(1) = Min(Attempts, initCount)

\* C2 case: more distinct users than units; all have returned.
C2_Witness ==
    /\ DistinctUserScenario
    /\ Attempts = NUsers
    /\ Attempts > initCount
    /\ OrderCount(1) = initCount
    /\ \E c \in Calls : res[c] = "sold_out"

\* C3: every (goods_id, user_id) pair has at most one success_killed row, and
\* at most one call of that pair ever returns an order id: a further attempt
\* by a user who holds an order fails and adds no row.
C3_OneOrderPerUser ==
    \A g \in Goods, u \in Users :
        /\ orders[<<g, u>>] <= 1
        /\ Cardinality(OkCalls(g, u)) <= 1

\* C3 case: a user who holds an order made another attempt, which reached the
\* insert and was refused on the primary key.
C3_Witness ==
    \E c \in Calls :
        /\ Returned(c) /\ res[c] = "duplicate_order"
        /\ orders[<<arg[c].g, arg[c].u>>] = 1

C5_SingleUse ==
    [][\A t \in TokenIds :
          PassedCalls(t) # {} =>
             /\ ~tokens[t].has /\ ~tokens'[t].has
             /\ \A c \in Calls :
                   (pc[c] = "new" /\ pc'[c] # "new" /\ arg'[c].t = t)
                      => (pc'[c] = "done" /\ res'[c] \in TokenErrs)]_vars

\* C6: VerifySeckillToken returns true only to the user and product the token
\* was issued for; presenting a live token with another user id or goods id
\* is answered "token mismatch" and leaves the record as it was.
C6_OnlyRightfulPair ==
    [][\A c \in Calls :
          /\ Passed(c)' =>
                /\ issued[arg'[c].t].has
                /\ issued[arg'[c].t].user = arg'[c].u
                /\ issued[arg'[c].t].goods = arg'[c].g
          /\ ( /\ pc[c] = "new" /\ pc'[c] # "new"
               /\ faults' = faults
               /\ tokens[arg'[c].t].has /\ ~tokens[arg'[c].t].expired
               /\ \/ tokens[arg'[c].t].user # arg'[c].u
                  \/ tokens[arg'[c].t].goods # arg'[c].g )
                => /\ pc'[c] = "done" /\ res'[c] = "token_mismatch"
                   /\ tokens' = tokens]_vars

\* C6 case: a token was refused to the wrong pair and afterwards consumed by
\* the pair it was issued for.
C6_Witness ==
    \E c, d \in Calls :
        /\ c < d /\ arg[c].t = arg[d].t
        /\ Returned(c) /\ res[c] = "token_mismatch"
        /\ Passed(d)

\* C7 as stated: every commit that fails after its pre-decrement gives its
\* unit back, exactly once, and a commit that succeeds keeps it: the cell is
\* K minus the orders committed minus the units held by commits in flight.
C7_CellRestoredAlways ==
    stock[1].has =>
        stock[1].val = initCount - OrderCount(1) - Cardinality(Reserving(1))

\* C7 amended: a failed commit issues IncrGoodsStock exactly once, and the
\* cell rises by one unless the counter store fails that increment, which is
\* logged and not retried; a commit that succeeds issues none.  The cell is K
\* minus the orders committed, minus the units held by commits in flight,
\* minus the increments the counter store failed.
C7_CellRestoredUnlessIncrFails ==
    stock[1].has =>
        stock[1].val =
            initCount - OrderCount(1) - Cardinality(Reserving(1)) - lost[1]

\* C7 case: a commit failed after its pre-decrement, its unit is back in the
\* cell, and another commit succeeded.
C7_Witness ==
    /\ Quiescent
    /\ \E c \in Calls : res[c] \in {"stock_not_enough", "duplicate_order",
                                     "create_order_failed", "get_promotion_failed"}
    /\ \E c \in Calls : res[c] = "ok"
    /\ lost[1] = 0
    /\ stock[1].has /\ stock[1].val = initCount - 1

\* C8 as stated: the stock cell never exceeds the promotion's ps_count, and
\* equals it when no commit is in flight.  It is stated here for the runs in
\* which no store call failed and no lease ran out.
C8_CellTracksPsCount ==
    (stock[1].has /\ faults = 0) =>
        /\ stock[1].val <= promotion[1].ps_count
        /\ Quiescent => stock[1].val = promotion[1].ps_count

\* C9 as stated: ps_count never drops below 0.  It is stated here for the
\* runs in which no store call failed and no lease ran out.
C9_PsCountNonNegative ==
    faults = 0 => \A g \in PromoGoods : promotion[g].ps_count >= 0

\* The calls of user u that passed the rate gate at a time in [s, s + 60).
AdmittedIn(u, s) ==
    {c \in Calls : /\ admit[c].has /\ arg[c].u = u
                   /\ s <= admit[c].at /\ admit[c].at < s + RateWindowSeconds}

\* The calls of user u that passed the rate gate on the rate key created at w.
AdmittedOnKey(u, w) ==
    {c \in Calls : admit[c].has /\ arg[c].u = u /\ admit[c].win = w}

\* C10 as stated: in every interval of 60 seconds at most rate_limit calls of
\* a user pass the rate gate.  It is stated here for the intervals that start
\* at an admitted call, in the runs in which no store call failed and no
\* lease ran out.
C10_EverySixtySeconds ==
    faults = 0 =>
        \A c \in Calls :
            admit[c].has => Cardinality(AdmittedIn(arg[c].u, admit[c].at)) <= rate_limit

\* C10 amended: the rate window is tumbling.  A window opens at the admitted
\* call that creates the user's rate key and ends 60 seconds later, when the
\* key expires; every admitted call falls into the window of the key it
\* incremented, the n-th call admitted on a key was handed a limit of at
\* least n, and so at most rate_limit calls of a user pass the gate in one
\* window when each was handed the configured limit (a call whose
\* configuration read fails is handed the default of 10).
C10_EveryRateWindow ==
    \A c \in Calls :
        admit[c].has =>
            LET W == AdmittedOnKey(arg[c].u, admit[c].win) IN
            /\ admit[c].win <= admit[c].at
            /\ admit[c].at < admit[c].win + RateWindowSeconds
            /\ Cardinality({d \in W : admit[d].n <= admit[c].n}) = admit[c].n
            /\ admit[c].n <= lim[c]
            /\ (\A d \in W : lim[d] = rate_limit) => Cardinality(W) <= rate_limit

\* C10 case: a user was admitted rate_limit times in one window, a further
\* call in that window was turned away, and after the key expired a call
\* opened the next window.
C10_Witness ==
    \E c, d, e \in Calls :
        /\ rate_limit = MaxRateLimit
        /\ admit[c].has /\ admit[c].n = rate_limit
        /\ Returned(d) /\ res[d] = "too_many_requests" /\ arg[d].u = arg[c].u
        /\ admit[e].has /\ arg[e].u = arg[c].u /\ admit[e].win > admit[c].win

\* The calls of user u admitted in the rate window that is open at time t: the
\* window opened at the admitted call whose INCR returned 1 less than 60
\* seconds ago.
AdmittedInOpenWindow(u, t) ==
    {d \in Calls :
        /\ admit[d].has /\ arg[d].u = u
        /\ \E o \in Calls :
              /\ admit[o].has /\ arg[o].u = u /\ admit[o].n = 1
              /\ admit[o].at <= admit[d].at
              /\ admit[o].at <= t /\ t < admit[o].at + RateWindowSeconds}

\* C11: a call that reaches the rate gate with limit L passes it when fewer
\* than L calls of the user were admitted in the window now open, and is
\* rejected as rate-limited when L were; once 60 seconds have gone by since
\* the call that opened the window no window is open and the next call passes.
C11_WindowRecovery ==
    [][\A c \in Calls :
          (pc[c] = "g_rate" /\ pc'[c] # "g_rate" /\ faults' = faults) =>
              LET n == Cardinality(AdmittedInOpenWindow(arg[c].u, now)) IN
              /\ n < lim[c] => (admit'[c].has /\ pc'[c] = "g_token")
              /\ n >= lim[c] => (~admit'[c].has /\ res'[c] = "too_many_requests")]_vars

\* C11 case: with the limit used up a call was rejected, and after the window
\* ran out a call of the same user passed the gate again.
C11_Witness ==
    \E c, d, e \in Calls :
        /\ admit[c].has /\ admit[c].n = lim[c] /\ lim[c] = rate_limit
        /\ res[d] = "too_many_requests" /\ arg[d].u = arg[c].u /\ c < d /\ d < e
        /\ admit[e].has /\ arg[e].u = arg[c].u /\ admit[e].n = 1
        /\ admit[e].at >= admit[c].win + RateWindowSeconds

\* The errors with which a gate before the rate gate rejects a call.
GateErrs == {"disabled", "blacklisted", "goods_not_found", "promotion_not_found",
             "not_available", "sold_out"}

\* Call c takes the step in which it reads the gates, and every read is answered.
GatesAnswered(c) == pc[c] = "g_gates" /\ pc'[c] # "g_gates" /\ faults' = faults

\* C12: GenerateSeckillToken evaluates enabled, not blacklisted, product and
\* promotion found, now inside the activity window [StartTime, EndTime],
\* stock cell > 0, and then the rate limit; the call returns the error of the
\* first gate that fails and the rate counter is not touched by a call that
\* an earlier gate rejects; a call holds a purchase token exactly when every
\* gate passed and the token was stored.
C12_GateOrder ==
    [][\A c \in Calls :
          LET u == arg[c].u
              g == arg[c].g
          IN
          /\ GatesAnswered(c) =>
                /\ rate' = rate
                /\ IF enabled.has /\ enabled.val # "true"
                   THEN res'[c] = "disabled"
                   ELSE IF u \in blacklist
                   THEN res'[c] = "blacklisted"
                   ELSE IF g \notin goodsRows \/ ~promotion[g].has
                   THEN res'[c] \in {"goods_not_found", "promotion_not_found"}
                   ELSE IF now < promotion[g].start_time \/ now > promotion[g].end_time
                   THEN res'[c] = "not_available"
                   ELSE IF ~stock[g].has \/ stock[g].val <= 0
                   THEN res'[c] = "sold_out"
                   ELSE pc'[c] = "g_cfg" /\ res'[c] = res[c]
          /\ res'[c] \in GateErrs \cup {"too_many_requests"} =>
                (~admit'[c].has /\ arg'[c].t = 0)
          /\ arg'[c].t # 0 =>
                /\ res'[c] = "ok" /\ admit'[c].has
                /\ issued'[arg'[c].t] = [has |-> TRUE, user |-> u, goods |-> g]
          /\ (pc[c] = "g_token" /\ pc'[c] # "g_token" /\ faults' = faults) =>
                (arg'[c].t # 0 /\ tokens'[arg'[c].t] = NewSeckillToken(u, g))]_vars

\* C12 case: a blacklisted user asked for a product without promotion and was
\* told "blacklisted", the first of the two gates that fail; another call
\* passed every gate and holds a token.
C12_Witness ==
    \E c, d \in Calls :
        /\ Returned(c) /\ res[c] = "blacklisted" /\ ~promotion[arg[c].g].has
        /\ Returned(d) /\ res[d] = "ok" /\ arg[d].t # 0 /\ admit[d].has

\* C13: after SetSeckillEnabled(false) has completed every call that reads
\* the gates is rejected as disabled and gets no token, until
\* SetSeckillEnabled(true) completes; after that, and when the key was never
\* written and is absent, no call is rejected as disabled.
C13_DisabledCampaign ==
    [][\A c \in Calls :
          /\ GatesAnswered(c) =>
                /\ switchOp = "off" => res'[c] = "disabled"
                /\ switchOp = "on" => res'[c] # "disabled"
                /\ (switchOp = "none" /\ ~enabled.has) => res'[c] # "disabled"
          /\ res'[c] = "disabled" => (arg'[c].t = 0 /\ ~admit'[c].has)]_vars

\* C13 case: the switch was set to false, a call was rejected as disabled, the
\* switch was set back to true and a later call got its token.
C13_Witness ==
    \E c, d \in Calls :
        /\ c < d /\ switchOp = "on"
        /\ Returned(c) /\ res[c] = "disabled"
        /\ Returned(d) /\ res[d] = "ok" /\ arg[d].t # 0

\* C14: with the campaign enabled, a call of user u that reads the gates
\* after AddToBlacklist(u) completed, and before the entry was removed or ran
\* out, is rejected as blacklisted and gets no token; after
\* RemoveFromBlacklist(u) or the expiry of the entry's lease the call is not
\* rejected at the blacklist gate.
C14_Blacklist ==
    [][\A c \in Calls :
          /\ (GatesAnswered(c) /\ GetSeckillEnabled(enabled)) =>
                /\ banOp[arg[c].u] = "added" => res'[c] = "blacklisted"
                /\ banOp[arg[c].u] \in {"removed", "expired"} => res'[c] # "blacklisted"
          /\ res'[c] = "blacklisted" => (arg'[c].t = 0 /\ ~admit'[c].has)]_vars

\* C14 case: a user was rejected as blacklisted, the entry ran out, and a
\* later call of the same user got its token.
C14_Witness ==
    \E c, d \in Calls, u \in Users :
        /\ c < d /\ arg[c].u = u /\ arg[d].u = u /\ banOp[u] = "expired"
        /\ Returned(c) /\ res[c] = "blacklisted"
        /\ Returned(d) /\ res[d] = "ok" /\ arg[d].t # 0

\* The SeckillWithToken calls of user u that acquired seckill_user_<u> and
\* have not released it yet: they are at the pre-decrement, inside the
\* transaction, at the compensation or about to release.
InCommit(u) ==
    {c \in Calls : /\ pc[c] \in {"decr", "tx_read", "tx_occ", "tx_ins", "restore", "release"}
                   /\ arg[c].u = u}

\* C15 as stated: at any moment at most one SeckillWithToken call of a user is
\* between acquiring the lease seckill_user_<u> and releasing it.
C15_OneCommitPerUser == \A u \in Users : Cardinality(InCommit(u)) <= 1

\* Call c takes the step in which it asks for the lock, and etcd answers.
LockAnswered(c) == pc[c] = "lock" /\ pc'[c] # "lock" /\ faults' = faults

\* C16: GetDistributedLock succeeds exactly when the key does not exist; while
\* it exists every other acquisition returns not-acquired, without error and
\* without waiting, and leaves the key with its holder; a release deletes the
\* key, after which (as after the expiry of its lease) it is acquired by the
\* next call that asks; a key has one holder at most.
C16_PutIfAbsent ==
    [][\A c \in Calls :
          /\ LockAnswered(c) =>
                /\ locks[arg[c].u] = 0 =>
                      (pc'[c] = "decr" /\ locks'[arg[c].u] = c)
                /\ locks[arg[c].u] # 0 =>
                      (pc'[c] = "done" /\ res'[c] = "busy" /\ locks' = locks)
          /\ (pc[c] = "release" /\ pc'[c] # "release" /\ faults' = faults) =>
                locks'[arg[c].u] = 0
          /\ (pc[c] = "lock" /\ pc'[c] = "decr") =>
                (locks[arg[c].u] = 0 /\ locks'[arg[c].u] = c)]_vars

\* C16 case: a call found the key held and was turned away, the holder
\* released it, and a third call of the same user acquired it.
C16_Witness ==
    \E c, d, e \in Calls, u \in Users :
        /\ arg[c].u = u /\ arg[d].u = u /\ arg[e].u = u
        /\ Returned(c) /\ res[c] = "ok"
        /\ Returned(d) /\ res[d] = "busy"
        /\ locks[u] = e /\ pc[e] = "decr"

\* The positions of the topic that hold the order event of call c.
OrderEvents(c) ==
    {i \in 1..Len(bus) : bus[i].type = "order" /\ bus[i].order = c}

\* The positions of the topic written by call c.
WrittenBy(c) == {i \in 1..Len(bus) : bus[i].by = c}

\* The goroutine of call c takes a step.
EmitterStep(c) == c \in spawned /\ (emit'[c] # emit[c] \/ tries'[c] # tries[c])

\* C17: once the transaction has committed, CreateOrder returns the order id
\* and the order row stays, wherever the goroutine that sends the order event
\* is: not started, sending, done, ended after three failed attempts or ended
\* without an attempt; no step of that goroutine touches the order rows, the
\* promotion, the stock cell or what the call returns.
C17_EmitFailureKeepsOrder ==
    [][\A c \in Calls :
          /\ c \in spawned' =>
                /\ res'[c] = "ok" /\ pc'[c] \in {"release", "done"}
                /\ orders'[<<arg'[c].g, arg'[c].u>>] = 1
          /\ EmitterStep(c) =>
                UNCHANGED <<orders, promotion, stock, lost, res, pc>>]_vars

\* C17 case: all three attempts to send the order event failed; the call has
\* returned the order id, the row is there and the cell was not given back.
C17_Witness ==
    \E c \in Calls :
        /\ emit[c] = "gave_up" /\ Returned(c) /\ res[c] = "ok"
        /\ orders[<<arg[c].g, arg[c].u>>] = 1
        /\ Quiescent /\ lost[1] = 0
        /\ stock[1].val = initCount - OrderCount(1)

VerifyReturns(c) ==
    /\ pc[c] \in {"new", "s_delexp"}
    /\ pc'[c] = "done"
    /\ arg'[c].u = 0 /\ arg'[c].t \in SessionIds

PreDecrErrs == {"stock_not_found", "sold_out", "stock_error"}

HoldingLabels == {"decr", "tx_read", "tx_occ", "tx_ins", "restore",
                  "g_gates", "g_cfg", "g_rate", "g_token"}

\* C23: leases are released on every exit path.  A call that was granted its
\* lock returns only through its deferred release, whatever the outcome of
\* the commit or of the gates; a release the store answers leaves the key
\* absent; a call that returns at the acquisition was not granted the key;
\* and every lock key that is held is eventually absent again.
C23_LeasesReleased ==
    /\ [][\A c \in Calls :
             /\ pc[c] \in HoldingLabels => pc'[c] # "done"
             /\ (pc[c] = "release" /\ pc'[c] = "done" /\ faults' = faults) =>
                    locks'[arg[c].u] = 0
             /\ (pc[c] = "g_release" /\ pc'[c] = "done" /\ faults' = faults) =>
                    tokenLocks'[<<arg[c].u, arg[c].g>>] = 0
             /\ (pc[c] = "lock" /\ pc'[c] = "done") => locks'[arg[c].u] # c
             /\ (pc[c] = "new" /\ pc'[c] = "done") =>
                    \A k \in Users \X Goods : tokenLocks'[k] # c]_vars
    /\ \A u \in Users : (locks[u] # 0) ~> (locks[u] = 0)
    /\ \A k \in Users \X Goods : (tokenLocks[k] # 0) ~> (tokenLocks[k] = 0)

\* A commit returned an order id, another was turned down after it had
\* reserved a unit, a token was issued, all through their releases, and no
\* lock key is left.
C23_Witness ==
    /\ \A u \in Users : locks[u] = 0
    /\ \A k \in Users \X Goods : tokenLocks[k] = 0
    /\ \E c1, c2, c3 \in Calls :
          /\ pc[c1] = "done" /\ pc[c2] = "done" /\ pc[c3] = "done"
          /\ arg[c1].t # arg[c2].t
          /\ res[c1] = "ok" /\ OrderCount(1) = 1 /\ c1 \in spawned
          /\ res[c2] = "duplicate_order"
          /\ res[c3] = "ok" /\ admit[c3].has

\* C24: lease ownership.  A lock key that is held changes holder only in a
\* step in which its holder runs its release, or in a step in which the
\* lease runs out (no call moves); in particular the release of a call
\* whose lease has run out does not remove the key another call holds by
\* then.
C24_LeaseOwnership ==
    [][\A u \in Users :
          (locks[u] # 0 /\ locks'[u] # locks[u]) =>
              \/ pc[locks[u]] = "release" /\ pc'[locks[u]] = "done"
              \/ pc' = pc]_vars

\* Where the retry loop of call c is: "idle" before it starts, "attempt"
\* before a publish attempt, "wait" in the select, and how it returned.
Loop(c) ==
    IF payReq[c] # NoPayReq
    THEN IF pc[c] = "p_send" THEN "attempt"
         ELSE IF pc[c] = "p_wait" THEN "wait"
         ELSE IF res[c] = "ok" THEN "sent"
         ELSE IF res[c] = "send_payment_failed" THEN "gave_up"
         ELSE "ctx_err"
    ELSE IF emit[c] = "send" THEN "attempt"
    ELSE IF emit[c] \in {"wait", "sent", "gave_up", "ctx_err"} THEN emit[c]
    ELSE "idle"

LoopEnded == {"sent", "gave_up", "ctx_err"}

\* The backoffs of a loop of three attempts.
ThreeBackoffs == <<0, 1, 4>>

\* C25: bounded retry.  Each of the two loops makes at most MaxRetries = 3
\* publish attempts; it sits out 0, 1 and 4 seconds after its first, second
\* and third failed attempt, in that order, and makes attempt n + 1 only
\* after the n-th wait; it returns nil at the first attempt that succeeds,
\* with its one message written; it returns the error after the third
\* failure and its wait, with nothing written; when its context is done
\* during a wait of 1 or 4 seconds it returns the context's error and makes
\* no further attempt; once it has returned nothing more is attempted; and
\* every loop that was started returns.
C25_BoundedRetry ==
    /\ [][\A c \in Calls :
             /\ tries'[c] <= MaxRetries
             /\ Len(waits'[c]) <= Len(ThreeBackoffs)
             /\ \A k \in 1..Len(waits'[c]) : waits'[c][k] = ThreeBackoffs[k]
             /\ tries'[c] # tries[c] =>
                    /\ Loop(c) = "attempt" /\ tries'[c] = tries[c] + 1
                    /\ Len(waits[c]) = tries[c]
                    /\ Loop(c)' \in {"sent", "wait"}
             /\ Loop(c)' = "sent" =>
                    /\ Cardinality(WrittenBy(c)') = 1
                    /\ Len(waits'[c]) = tries'[c] - 1
             /\ Loop(c)' = "gave_up" =>
                    /\ tries'[c] = MaxRetries /\ waits'[c] = ThreeBackoffs
                    /\ Cardinality(WrittenBy(c)') = 0
             /\ Loop(c)' = "ctx_err" =>
                    /\ cancelled'[c] /\ Len(waits'[c]) = tries'[c] - 1
                    /\ Cardinality(WrittenBy(c)') = 0
             /\ (Loop(c) = "wait" /\ cancelled[c] /\ tries[c] > 1) =>
                    Loop(c)' \in {"wait", "ctx_err"}
             /\ Loop(c) \in LoopEnded =>
                    /\ Loop(c)' = Loop(c)
                    /\ tries'[c] = tries[c] /\ waits'[c] = waits[c]
                    /\ WrittenBy(c)' = WrittenBy(c)]_vars
    /\ \A c \in Calls : (Loop(c) \in {"attempt", "wait"}) ~> (Loop(c) \in LoopEnded)

\* One loop returned nil at its third attempt, after waits of 0 and 1
\* seconds, and another was cut short by its context during the wait of 1 s
\* that followed its second failed attempt.
C25_Witness ==
    \E c1, c2 \in Calls :
        /\ Loop(c1) = "sent" /\ tries[c1] = 3 /\ waits[c1] = <<0, 1>>
        /\ Cardinality(WrittenBy(c1)) = 1
        /\ Loop(c2) = "ctx_err" /\ tries[c2] = 2 /\ waits[c2] = <<0>>

\* C26: consumers dispatch by the message_type header.  Every message handed
\* to the order handler has message_type "order" and every message handed to
\* the payment handler has message_type "payment".
C26_DispatchByType ==
    /\ \A k \in 1..Len(handledOrder) : bus[handledOrder[k]].type = "order"
    /\ \A k \in 1..Len(handledPay) : bus[handledPay[k]].type = "payment"

Max(a, b) == IF a >= b THEN a ELSE b

\* The runs of the script on the cell of product g that Redis answered.
ScriptRuns(g) == {c \in Calls : scriptRet[c].has /\ arg[c].g = g}

\* C27: the script check_and_decr.  A run on an absent key returns -1 and
\* leaves the key absent; a run on a value <= 0 returns -2 and leaves the
\* value as it is; any other run lowers the value by exactly one and returns
\* the new value, which is >= 0; no other cell is touched.  Runs do not
\* interleave: of n runs on a cell that held v >= 0, exactly min(n, v)
\* decrement it and the cell holds max(v - n, 0).
C27_CheckAndDecr ==
    /\ [][\A c \in Calls :
             scriptRet'[c] # scriptRet[c] =>
                 LET g == arg'[c].g
                     r == scriptRet'[c].val
                 IN  /\ ~stock[g].has => r = -1 /\ ~stock'[g].has
                     /\ (stock[g].has /\ stock[g].val <= 0) =>
                            r = -2 /\ stock'[g] = stock[g]
                     /\ (stock[g].has /\ stock[g].val > 0) =>
                            /\ stock'[g] = Cell(stock[g].val - 1)
                            /\ r = stock[g].val - 1 /\ r >= 0
                     /\ \A h \in Goods \ {g} : stock'[h] = stock[h]]_vars
    /\ [](stock[1].has /\ initCount >= 0 =>
             LET n == Cardinality(ScriptRuns(1)) IN
             /\ Cardinality({c \in ScriptRuns(1) : scriptRet[c].val >= 0})
                  = Min(n, initCount)
             /\ stock[1].val = Max(initCount - n, 0))

\* Three runs met a cell that held 2: two lowered it, to 1 and to 0, and the
\* third was answered -2; a run on the absent cell of product 2 got -1.
C27_Witness ==
    \E c1, c2, c3, c4 \in Calls :
        /\ initCount = 2 /\ stock[1] = Cell(0) /\ ~stock[2].has
        /\ arg[c1].g = 1 /\ scriptRet[c1] = Ret(1)
        /\ arg[c2].g = 1 /\ scriptRet[c2] = Ret(0)
        /\ arg[c3].g = 1 /\ scriptRet[c3] = Ret(-2)
        /\ arg[c4].g = 2 /\ scriptRet[c4] = Ret(-1)

\* C28: the durable store alone is the oversell defense.  Whatever the stock
\* cell holds, also when a preload has written it while commits were in
\* flight, the number of success_killed rows of a product is at most the
\* ps_count its promotion opened with.
C28_DurableStoreDefends ==
    \A g \in PromoGoods :
        SumOver([u \in Users |-> orders[<<g, u>>]], Users) <= initCount

\* Calls inside WithTransaction, for product g.
InTransaction(g) ==
    {c \in Calls : pc[c] \in {"tx_read", "tx_occ", "tx_ins"} /\ arg[c].g = g}

\* C29: the durable commit is all-or-nothing.  The versioned decrement takes
\* effect only together with the order insert: whenever no transaction on a
\* product is under way, its promotion has lost one unit and gained one
\* version per order row, and nothing for the transactions that were
\* aborted.
C29_AllOrNothing ==
    \A g \in PromoGoods :
        InTransaction(g) = {} =>
            /\ promotion[g].ps_count = initCount - OrderCount(g)
            /\ promotion[g].version = OrderCount(g)

\* C30: a promotion's version never goes down, whichever operation runs.  A
\* versioned decrement that affects a row lowers ps_count by exactly 1 and
\* raises version by exactly 1; one whose expected version differs from the
\* row's reports 0 rows and changes nothing; and no step of a commit, of a
\* preload or of a reset lowers the version of any promotion.
C30_VersionMonotonic ==
    [][/\ \A g \in Goods : promotion'[g].version >= promotion[g].version
       /\ \A c \in Calls :
             /\ (pc[c] = "tx_occ" /\ pc'[c] = "tx_ins") =>
                    /\ promotion'[arg[c].g].ps_count
                         = promotion[arg[c].g].ps_count - 1
                    /\ promotion'[arg[c].g].version
                         = promotion[arg[c].g].version + 1
             /\ (pc[c] = "tx_occ" /\ res'[c] = "stock_not_enough") =>
                    /\ ver[c] # promotion[arg[c].g].version
                    /\ promotion' = promotion]_vars

\* The callbacks a watch that misses nothing makes for a history of changes.
Callbacks(history) ==
    [i \in 1..Len(history) |-> <<history[i].key, history[i].value>>]

\* C31: the watch delivers every change under the configuration prefix and
\* the blacklist prefix exactly once and in order: whenever the watch loop
\* has nothing left to read, the callback has been called once for each put
\* and delete of the enabled key, the rate_limit key and the blacklist
\* entries made since the watch began, in the order they were made.
C31_EveryChangeDelivered ==
    (watching /\ rch = <<>>) => delivered = Callbacks(changes)

\* C32: the window gate of GenerateSeckillToken lets a call through exactly
\* when start_time <= now < end_time.  A call that passes the gates does so
\* inside that half-open window, so that at now = end_time and later it is
\* rejected, and a call rejected as not available is outside of it.
C32_WindowGate ==
    [][\A c \in Calls :
          (pc[c] = "g_gates" /\ pc'[c] # "g_gates") =>
              LET promo == promotion[arg[c].g]
                  inside == promo.start_time <= now /\ now < promo.end_time
              IN /\ pc'[c] = "g_cfg" => inside
                 /\ res'[c] = "not_available" => ~inside]_vars

\* The calls that returned an order id.
OrdersMade == {c \in Calls : pc[c] = "done" /\ res[c] = "ok"}

\* C33: in the DecrGoodsStock variant, a commit that fails after the
\* pre-decrement gives its unit back exactly once.  So when no call is in
\* flight the stock cell, together with the increments the counter store
\* failed, is the preloaded K less one unit per order made: no failed attempt
\* left the cell above the value it had before it.
C33_RestoredExactlyOnce ==
    Quiescent =>
        \A g \in PromoGoods :
            stock[g].val + lost[g] = initCount - Cardinality(OrdersMade)

\* C34: the durable stock is conserved.  With no reset, whenever no
\* commit_purchase is in flight, the orders of a product and the ps_count of
\* its promotion add up to the ps_count the campaign opened with: every durable
\* decrement has exactly one order row.
C34_DurableConservation ==
    Quiescent =>
        \A g \in PromoGoods : OrderCount(g) + promotion[g].ps_count = initCount

\* C35: once the stock cell of a product was preloaded with K, commits keep
\* it between 0 and K in every state, whatever their outcome and order; and
\* when no commit is in flight and every failed commit was compensated, the
\* cell is K less the number of commits that returned an order id.  A
\* compensating increment the counter store failed leaves the cell one lower.
C35_CellBounds ==
    \A g \in PromoGoods :
        stock[g].has =>
            /\ 0 <= stock[g].val /\ stock[g].val <= initCount
            /\ Quiescent =>
                  stock[g].val + lost[g] = initCount - Cardinality(OrdersMade)

\* One commit returned an order id and another failed after its decrement
\* and gave the unit back.
C35_Witness ==
    /\ Quiescent
    /\ stock[1].has /\ lost[1] = 0
    /\ Cardinality(OrdersMade) = 1
    /\ \E c \in Calls :
          res[c] \in {"stock_not_enough", "duplicate_order", "create_order_failed"}


\* The value of a rate key; an absent key counts as 0.
RateCount(key) == IF key.has THEN key.count ELSE 0

\* The calls of user u that the rate gate admitted.
AdmittedCalls(u) == {c \in Calls : admit[c].has /\ arg[c].u = u}

\* C36: the rate counter of a user goes up only in the step in which the rate
\* gate admits a GenerateSeckillToken call of that user, and then by one.  A
\* call rejected by the token lock or by an earlier gate never reaches the
\* counter, and a call rejected as rate-limited leaves it as it is.  When all
\* the admitted calls of a user ran with the same limit L, the counter is at
\* most L.
C36_RateCounter ==
    /\ [][\A u \in Users :
             /\ RateCount(rate'[u]) > RateCount(rate[u]) =>
                   /\ RateCount(rate'[u]) = RateCount(rate[u]) + 1
                   /\ \E c \in Calls :
                         /\ arg[c].u = u
                         /\ pc[c] = "g_rate" /\ pc'[c] = "g_token"
                         /\ ~admit[c].has /\ admit'[c].has
             /\ \A c \in Calls :
                   (pc[c] = "g_rate" /\ res'[c] = "too_many_requests")
                       => rate' = rate]_vars
    /\ [](\A u \in Users : \A L \in 1..DefaultRateLimit :
             (\A c \in AdmittedCalls(u) : lim[c] = L) => RateCount(rate[u]) <= L)

\* The rate gate admitted one call of user 1 and refused the next, and the
\* counter stands at the limit.
C36_Witness ==
    \E c, d \in Calls :
        /\ arg[c].u = 1 /\ arg[d].u = 1
        /\ admit[c].has /\ lim[c] = 1
        /\ pc[d] = "done" /\ res[d] = "too_many_requests"
        /\ rate[1].has /\ rate[1].count = 1

\* What GenerateSeckillToken answers when the switch, the blacklist, the
\* window or the rate gate refuses a call.
AdmissionErrs == {"disabled", "blacklisted", "not_available", "too_many_requests"}

\* C37: SeckillWithToken and CreateOrder read neither the switch, the
\* blacklist, the window of the promotion nor the rate limit.  No commit
\* returns the answer of a gate, and no step of a commit reads the rate limit
\* or writes a rate counter; so a token issued earlier is still turned into
\* an order while the campaign is off, the user is blacklisted or the clock
\* is outside the window.
C37_CommitIgnoresGates ==
    /\ [](\A c \in Calls : res[c] \notin AdmissionErrs)
    /\ [][\A c \in Calls :
             pc'[c] # pc[c] => /\ rate' = rate
                               /\ lim' = lim
                               /\ admit' = admit]_vars

\* User 1 has an order made by a commit that ran, from its first step to its
\* last, with the campaign switched off, the user blacklisted and the clock
\* before the start of the window.
C37_Witness ==
    \E c \in Calls :
        /\ arg[c].u = 1 /\ pc[c] = "done" /\ res[c] = "ok" /\ orders[<<1, 1>>] = 1
        /\ ~GetSeckillEnabled(enabled) /\ switchOp = "none"
        /\ IsInBlacklist(blacklist, 1) /\ banOp[1] = "none"
        /\ now < promotion[1].start_time

\* The calls that passed VerifySeckillToken with token t and then failed.
FailedAfterPass(t) ==
    {d \in Calls : Passed(d) /\ arg[d].t = t /\ pc[d] = "done" /\ res[d] # "ok"}

\* C38: VerifySeckillToken consumes the token before the lease is asked for,
\* and nothing puts it back.  No step makes a token record exist again, a
\* call reaches the lock only with its token deleted, and once a commit has
\* failed after its token was validated, a later call that presents the same
\* token does not pass the validation.
C38_TokenStaysConsumed ==
    [][/\ \A t \in TokenIds : tokens'[t].has => tokens[t].has
       /\ \A c \in Calls :
             /\ (pc[c] # "lock" /\ pc'[c] = "lock") => ~tokens'[arg[c].t].has
             /\ (pc[c] = "new" /\ pc'[c] # "new"
                   /\ FailedAfterPass(arg'[c].t) # {}) => pc'[c] # "v_del"]_vars

\* C39: events follow commits.  Every order event on the topic was written
\* for a call whose transaction had committed by then: CreateOrder had set
\* orderSuccess and started the goroutine, the order row of that user and
\* product exists, and the call returns the order id.  No order event is on
\* the topic for a call that failed.
C39_EventsFollowCommits ==
    /\ \A i \in 1..Len(bus) :
          bus[i].type = "order" =>
              LET c == bus[i].by IN
              /\ c \in spawned /\ res[c] = "ok"
              /\ orders[<<arg[c].g, arg[c].u>>] >= 1
    /\ \A c \in Calls : res[c] \notin {"none", "running", "ok"} => OrderEvents(c) = {}

\* The order event of one commit is on the topic while another commit, of
\* the same user, failed at the insert and has none.
C39_Witness ==
    \E c, d \in Calls :
        /\ OrderEvents(c) # {} /\ res[c] = "ok"
        /\ pc[d] = "done" /\ res[d] = "duplicate_order" /\ emit[d] = "none"

\* C40: ResetDataBase(p) is all or nothing and touches only product p.  A
\* reset step either leaves the order rows and the promotion rows as they
\* are, which is what it does when p has no goods row or a statement fails,
\* or it deletes every order of p and sets the promotion of p to ps_count =
\* BookStockCount and version = 0, both at once, the orders and promotions of
\* the other products staying as they are.  In either case the stock cell of
\* every product, p included, is unchanged.
C40_ResetFrame ==
    [][\A p \in Goods :
          ResetDataBase(p) =>
              /\ stock' = stock
              /\ p \notin goodsRows => (orders' = orders /\ promotion' = promotion)
              /\ \/ orders' = orders /\ promotion' = promotion
                 \/ /\ \A k \in DOMAIN orders :
                          orders'[k] = IF k[1] = p THEN 0 ELSE orders[k]
                    /\ \A g \in Goods :
                          promotion'[g] =
                              IF g = p /\ promotion[p].has
                              THEN [promotion[p] EXCEPT !.ps_count = BookStockCount,
                                                        !.version = 0]
                              ELSE promotion[g]]_vars

\* A commit had made an order and lowered the stock cell; a reset of product
\* 1 then deleted the order and put the promotion back to BookStockCount and
\* version 0, and the cell is still below what it was preloaded with.
C40_Witness ==
    /\ \E c \in Calls : res[c] = "ok"
    /\ OrderCount(1) = 0
    /\ promotion[1].ps_count = BookStockCount /\ promotion[1].version = 0
    /\ stock[1].has /\ stock[1].val < MaxStock
    /\ psRead = [c \in Calls |-> 0]
=============================================================================
